---- MODULE Spec2Model ----
(***************************************************************************)
(* A model of the vvtest execution orchestrator: the direct-mode scheduler *)
(* (TestExecList / run_test_list), the dependency predicates               *)
(* (TestDependency / TestCase), the test executor's poll loop (TestExec)   *)
(* and the batch manager (Batcher / BatchJobHandler).                      *)
(***************************************************************************)
EXTENDS Integers, Sequences, FiniteSets, TLC

(***************************************************************************)
(* Bounds of the model.                                                    *)
(***************************************************************************)
NumTests == 3      \* number of test cases held by the TestList
MaxNp == 3         \* largest np parameter a test may carry
NumProcs == 2      \* cores of the platform's pool

Tests == 1..NumTests
NoTest == 0        \* Python's None where a TestCase is expected

(***************************************************************************)
(* Result words and dependency result expressions.  A word expression over *)
(* the single word that is the dependency's result is represented by the   *)
(* set of result words for which evaluate() is true; "None" is the absent  *)
(* expression.                                                             *)
(***************************************************************************)
ResultWords == {"notrun", "notdone", "pass", "diff", "fail", "timeout", "skip"}
ExitResults == {"pass", "diff", "fail", "timeout"}
AnyResult == ResultWords                    \* result="*"
Exprs == {<<"None">>, <<"expr", AnyResult>>}

VARIABLES
    np,        \* test -> int(tspec.getParameters().get('np'))
    deps,      \* test -> sequence of TestDependency [to, expr] (TestCase.deps)
    skip,      \* set of tests with tstat.skipTest() true (no TestExec)
    staged,    \* the staged siblings, which share one execute directory
    state,     \* test -> TestStatus state: "notrun" | "notdone" | "done"
    result,    \* test -> TestStatus result word once done ("" before)
    xtlist,    \* TestExecList.xtlist: np -> list of pending tests
    started,   \* TestExecList.started (as the set of its keys)
    stopped,   \* TestExecList.stopped (as the set of its keys)
    nfree,     \* free cores of the platform's pool
    pc,        \* position of the run: "create" | "pop" | "poll" | "done"
    lastpop,   \* what the last popNext call returned and saw
    remaining, \* list returned by popRemaining (<<>> before the loop ends)
    results_file, \* TestList.results_file: test -> the result words of the
                  \* records appended for it, in order
    finish     \* number of finish markers in the results file

rvars == <<results_file, finish>>

dvars == <<np, deps, skip, staged, state, result, xtlist, started, stopped,
           nfree, pc, lastpop, remaining, rvars>>

\* one TestExec and its child process
VARIABLES
    now,          \* time.time()
    timeout,      \* TestExec.timeout
    pid,          \* TestExec.pid (fork path)
    subpid,       \* TestExec.subpid (forkless path)
    tstart,       \* TestExec.tstart
    tstop,        \* TestExec.tstop
    timedout,     \* TestExec.timedout
    exit_status,  \* TestExec.exit_status
    wcode,        \* raw wait status of the child once it has exited
    sent,         \* signal name -> number of times signalJob has sent it
    polled,       \* poll() has been called at the current clock value
    missed,       \* some clock value since the start went by without a poll
    xstatus       \* result word set by finishExecution ("" before)

xrest == <<timeout, pid, subpid, tstart, tstop, timedout, exit_status,
           wcode, sent, polled, missed, xstatus>>

xvars == <<now, xrest>>

\* the batch manager: Batcher, BatchJobHandler and the batch system
VARIABLES
    maxjobs,      \* Batcher.maxjobs
    qsleep,       \* run_batch: the sleep length, VVTEST_BATCH_SLEEP_LENGTH
    testtimeout,  \* test -> its 'timeout' attribute
    jobs,         \* batch id -> the tests of the job (BatchTestGrouper.groups)
    todo,         \* BatchJobHandler.todo (batch ids)
    submitted,    \* BatchJobHandler.submitted
    bstopped,     \* BatchJobHandler.stopped
    bdone,        \* BatchJobHandler.done
    bjob,         \* batch id -> the BatchJob's fields (tstart, tstop, ...)
    queue,        \* the batch ids the batch system lists as queued or running
    outfile,      \* batch id -> state of the job's output file
    resfile,      \* batch id -> state of the job's results file
    journal,      \* test -> its entry in the results file of its job
    cancels       \* the calls of batchitf.cancelJobs: their job id lists

bvars == <<maxjobs, qsleep, testtimeout, jobs, todo, submitted, bstopped,
           bdone, bjob, queue, outfile, resfile, journal, cancels>>

\* the TestList as a store of scanned tests, and the exit code it encodes
VARIABLES
    tcasemap,     \* TestList.tcasemap: test id -> the call that stored it
    xdirmap,      \* TestList.xdirmap: execute directory -> test id
    warnings,     \* number of duplicate execute directory warnings
    lastread,     \* the number of readTestFile calls and the tests that
                  \* the last one created
    ival          \* the value returned by encodeIntegerWarning

lvars == <<tcasemap, xdirmap, warnings, lastread, ival>>

\* the queue times that the Batcher asks for
VARIABLES
    max_timeout,  \* BatchTestGrouper.max_timeout
    qtime,        \* batch id -> the queue time of the job
    jobT          \* batch id -> ten times the -T argument of the job
                  \* script, None when the script has none

qvars == <<max_timeout, qtime, jobT>>

\* how the launches of the tests went, and the exceptions of the user
\* plugin and of the batch interface
VARIABLES
    launch,       \* test -> "" or the failure of TestExec.start
    exc_uniq,     \* UserPluginBridge.exc_uniq
    tracebacks,   \* exception string -> number of tracebacks written
    raised,       \* the exception strings that a plugin function raised
    propagated,   \* the call sites that an exception has left
    ncalls        \* number of calls of plugin and batch interface so far

pvars == <<exc_uniq, tracebacks, raised, propagated, ncalls>>

avars == <<launch, pvars>>

\* the resolution of a dependency pattern, the post-clean of the execute
\* directories and the runtimes known from earlier runs
VARIABLES
    dmatch,       \* find_tests_by_execute_directory_match: its arguments,
                  \* what it returned and the number of calls made
    postclean,    \* rtconfig attribute 'postclean'
    cleaned,      \* the tests whose execute directory was post-cleaned
    runtime,      \* test -> TestStatus.getRuntime(None), None being absent
    pgroup,       \* the analyze test, if any, and the tests of its group
    has_dependent \* the tests whose TestCase.has_dependent is True

\* one call of os_fork_with_retry and one of the queue time bump
VARIABLES
    fork,         \* numtries, the tries and failures so far, the next
                  \* pause and the pauses slept (in half seconds), and how
                  \* the call stands
    bump          \* a queue time, and what the bump made of it and of the
                  \* next queue time

\* the resources of the tests of a direct run
VARIABLES
    resource_obj, \* test -> TestExec.resource_obj, <<>> being None
    pool          \* the platform's account of its allocations: the number
                  \* of the next one, those outstanding, and how often
                  \* each has been returned

hvars == <<resource_obj, pool>>

nvars == <<fork, bump, hvars>>

mvars == <<dmatch, postclean, cleaned, runtime, pgroup, has_dependent, nvars>>

\* what the run loops leave alone
ovars == <<lvars, qvars, avars, mvars>>

vars == <<dvars, xvars, bvars, ovars>>

(***************************************************************************)
(* TestStatus                                                              *)
(***************************************************************************)
skipTest(t) == t \in skip
isDone(t) == state[t] = "done"
isNotDone(t) == state[t] = "notdone"
isNotrun(t) == state[t] = "notrun"

getResultStatus(t) ==
    IF skipTest(t) THEN "skip"
    ELSE IF isNotrun(t) THEN "notrun"
    ELSE IF isDone(t) THEN result[t]
    ELSE "notdone"

(***************************************************************************)
(* TestDependency                                                          *)
(***************************************************************************)
satisfiesResult(wordexpr, res) ==
    IF wordexpr = <<"None">>
    THEN (IF res \notin {"pass", "diff"} THEN FALSE ELSE TRUE)
    ELSE (IF res \notin wordexpr[2] THEN FALSE ELSE TRUE)

RECURSIVE depWillNeverRun(_), tcWillNeverRun(_)

\* TestDependency.willNeverRun
depWillNeverRun(tdep) ==
    LET u == tdep.to IN
    IF isDone(u) \/ skipTest(u)
    THEN ~satisfiesResult(tdep.expr, getResultStatus(u))
    ELSE IF isNotrun(u)
    THEN tcWillNeverRun(u) /\ ~satisfiesResult(tdep.expr, getResultStatus(u))
    ELSE FALSE

\* TestCase.willNeverRun
tcWillNeverRun(t) ==
    \E i \in 1..Len(deps[t]) : depWillNeverRun(deps[t][i])

\* mutant: a dependency that is running (notdone) does not block
isBlockingIgnoreRunning(tdep) ==
    LET u == tdep.to IN
    IF isDone(u) \/ skipTest(u)
    THEN ~satisfiesResult(tdep.expr, getResultStatus(u))
    ELSE IF isNotDone(u)
    THEN FALSE
    ELSE IF tcWillNeverRun(u)
    THEN ~satisfiesResult(tdep.expr, getResultStatus(u))
    ELSE TRUE

\* mutant: a dependency that will never run always blocks
isBlockingNeverRunBlocks(tdep) ==
    LET u == tdep.to IN
    IF isDone(u) \/ skipTest(u)
    THEN ~satisfiesResult(tdep.expr, getResultStatus(u))
    ELSE TRUE

\* TestDependency.isBlocking
isBlocking(tdep) ==
    LET u == tdep.to IN
    IF isDone(u) \/ skipTest(u)
    THEN ~satisfiesResult(tdep.expr, getResultStatus(u))
    ELSE IF isNotDone(u)
    THEN TRUE
    ELSE IF tcWillNeverRun(u)
    THEN ~satisfiesResult(tdep.expr, getResultStatus(u))
    ELSE TRUE

(***************************************************************************)
(* TestCase                                                                *)
(***************************************************************************)
numDependencies(t) == Len(deps[t])

RECURSIVE FirstBlocking(_, _)
FirstBlocking(t, i) ==
    IF i > Len(deps[t]) THEN NoTest
    ELSE IF isBlocking(deps[t][i]) THEN deps[t][i].to
    ELSE FirstBlocking(t, i + 1)

RECURSIVE getRootBlockingDependency(_)
\* the test at the end of the chain of first blocking dependencies
getRootBlockingDependency(t) ==
    LET u == FirstBlocking(t, 1)
    IN IF u = NoTest THEN NoTest
       ELSE IF FirstBlocking(u, 1) = NoTest THEN u
       ELSE getRootBlockingDependency(u)

\* the first dependency test that blocks, or None
getBlockingDependency(t) == FirstBlocking(t, 1)

isBlocked(t) == \E i \in 1..Len(deps[t]) : isBlocking(deps[t][i])

(***************************************************************************)
(* Platform: the pool of cores.                                            *)
(***************************************************************************)
queryProcs(n) == n <= nfree
getResources(n) == nfree - n
returnResources(n) == nfree + n

(***************************************************************************)
(* TestStatus.markDone / markTimedOut: result word of a finished test.     *)
(* exit_info is <<exit_status, timedout>> as returned by getExitInfo().    *)
(***************************************************************************)
DIFF_EXIT_STATUS == 64
None == -9999      \* Python's None where a number is expected

translate_exit_status_to_result_string(xs) ==
    IF xs = 0 THEN "pass"
    ELSE IF xs = DIFF_EXIT_STATUS THEN "diff"
    ELSE "fail"

\* ExecutionHandler.finishExecution: the status the test is marked with
finishExecutionResult(xs, tmout) ==
    IF tmout = None
    THEN translate_exit_status_to_result_string(xs)
    ELSE "timeout"

(***************************************************************************)
(* TestExecList                                                            *)
(***************************************************************************)
Max(S) == CHOOSE x \in S : \A y \in S : y <= x

RECURSIVE SortReverse(_)
\* npL.sort() ; npL.reverse()
SortReverse(S) ==
    IF S = {} THEN <<>> ELSE <<Max(S)>> \o SortReverse(S \ {Max(S)})

\* mutant: the scan returns the first test of the bucket, blocked or not
ScanBucketUnchecked(L, i) == IF i > Len(L) THEN 0 ELSE i

RECURSIVE ScanBucket(_, _)
\* inner loop of _pop_next_test: index of the first test of list L, from
\* index i on, with no blocking dependency; 0 if there is none
ScanBucket(L, i) ==
    IF i > Len(L) THEN 0
    ELSE IF getBlockingDependency(L[i]) = NoTest THEN i
    ELSE ScanBucket(L, i + 1)

RECURSIVE PopNextTestFrom(_, _, _)
\* outer loop of _pop_next_test over npL from position k on; the result is
\* <<np, i>> (bucket and index of the test found) or <<>> for None
PopNextTestFrom(npL, k, withPlatform) ==
    IF k > Len(npL) THEN <<>>
    ELSE LET n == npL[k]
             i == IF (~withPlatform) \/ queryProcs(n)
                  THEN ScanBucket(xtlist[n], 1) ELSE 0
         IN IF i > 0 THEN <<n, i>>
            ELSE PopNextTestFrom(npL, k + 1, withPlatform)

pop_next_test(withPlatform) ==
    PopNextTestFrom(SortReverse(DOMAIN xtlist), 1, withPlatform)

\* mutant: the second search is made also while tests are running
popNextAlwaysRetry ==
    LET first == pop_next_test(TRUE) IN
    IF first # <<>> THEN first \o <<1>>
    ELSE LET second == pop_next_test(FALSE) IN
         IF second # <<>> THEN second \o <<2>> ELSE <<>>

\* mutant: the second search is never made
popNextNoRetry ==
    LET first == pop_next_test(TRUE) IN
    IF first # <<>> THEN first \o <<1>> ELSE <<>>

\* popNext: <<np, i, pass>> of the test found, pass 1 with the resource
\* query and pass 2 without it; <<>> if no test can run
popNext ==
    LET first == pop_next_test(TRUE) IN
    IF first # <<>> THEN first \o <<1>>
    ELSE IF Cardinality(started) = 0
    THEN LET second == pop_next_test(FALSE) IN
         IF second # <<>> THEN second \o <<2>> ELSE <<>>
    ELSE <<>>

RemoveAt(L, i) == SubSeq(L, 1, i - 1) \o SubSeq(L, i + 1, Len(L))

\* mutant: the test is handed out but stays in its bucket
pop_test_exec_keep(n, i) == xtlist

\* _pop_test_exec: the run list without entry i of bucket n
pop_test_exec(n, i) ==
    LET L == RemoveAt(xtlist[n], i) IN
    IF Len(L) = 0
    THEN [m \in DOMAIN xtlist \ {n} |-> xtlist[m]]
    ELSE [xtlist EXCEPT ![n] = L]

numRunning == Cardinality(started)
numDone == Cardinality(stopped)

RECURSIVE Concat(_, _)
\* the lists of the buckets npL[k..], one after the other
Concat(npL, k) ==
    IF k > Len(npL) THEN <<>> ELSE xtlist[npL[k]] \o Concat(npL, k + 1)

\* popRemaining
popRemaining == Concat(SortReverse(DOMAIN xtlist), 1)

Range(L) == {L[i] : i \in 1..Len(L)}
Pending == UNION {Range(xtlist[n]) : n \in DOMAIN xtlist}

(***************************************************************************)
(* run_test_list: one action per branch of the loop body, then the poll    *)
(* sweep over the running tests.                                           *)
(***************************************************************************)
cvars == <<np, deps, skip, staged>>

\* TestList.appendTestResult: a record with the test's current result word
appendTestResult(t, word) ==
    [results_file EXCEPT ![t] = Append(@, word)]

\* a testDone that writes no record
testDoneUnrecorded(fin, words) == results_file

\* TestExecList.testDone for each test of fin: a record with its result
testDone(fin, words) ==
    [t \in DOMAIN results_file |->
        IF t \in fin THEN Append(results_file[t], words[t])
                     ELSE results_file[t]]

\* a writeFinished that writes nothing
writeFinishedNever == finish

\* TestList.writeFinished: the finish marker is appended
writeFinished == finish + 1

\* popNext returned a test: start_test and appendTestResult
StartWith(tnext) ==
    /\ pc = "pop"
    /\ tnext # <<>>
    /\ LET n == tnext[1]
           i == tnext[2]
           t == xtlist[n][i]
       IN /\ xtlist' = pop_test_exec(n, i)
          /\ started' = started \cup {t}
          /\ nfree' = getResources(np[t])
          /\ state' = [state EXCEPT ![t] = "notdone"]
          /\ lastpop' = [t |-> t, pass |-> tnext[3]]
          /\ results_file' = appendTestResult(t, "notdone")
    /\ pc' = "poll"
    /\ UNCHANGED <<cvars, result, stopped, remaining, finish, xvars, bvars>>

StartStep == StartWith(popNext)

\* the test is launched
StartNext == StartStep /\ UNCHANGED ovars

\* popNext returned None and nothing is running: leave the loop, then
\* popRemaining
LoopExitWith(tnext) ==
    /\ pc = "pop"
    /\ tnext = <<>>
    /\ numRunning = 0
    /\ remaining' = popRemaining
    /\ xtlist' = <<>>
    /\ lastpop' = [t |-> NoTest, pass |-> 0]
    /\ finish' = writeFinished
    /\ pc' = "done"
    /\ UNCHANGED <<cvars, state, result, started, stopped, nfree, results_file,
                   xvars, bvars, ovars>>

LoopExit == LoopExitWith(popNext)

\* popNext returned None while tests are running: sleep
SleepWith(tnext) ==
    /\ pc = "pop"
    /\ tnext = <<>>
    /\ numRunning # 0
    /\ lastpop' = [t |-> NoTest, pass |-> 0]
    /\ pc' = "poll"
    /\ UNCHANGED <<cvars, state, result, xtlist, started, stopped, nfree,
                   remaining, rvars, xvars, bvars, ovars>>

Sleep == SleepWith(popNext)

ExitInfos == {<<0, None>>, <<DIFF_EXIT_STATUS, None>>, <<1, None>>, <<None, 1>>}

RECURSIVE SumNp(_)
SumNp(S) ==
    IF S = {} THEN 0
    ELSE LET t == CHOOSE x \in S : TRUE IN np[t] + SumNp(S \ {t})

\* the sweep over getRunning(): each running test whose poll() returns True
\* (the set fin, with the exit info of each) is finished and moved to stopped
PollStep ==
    /\ pc = "poll"
    /\ \E fin \in SUBSET started :
         \E info \in [fin -> ExitInfos] :
            /\ state' = [t \in DOMAIN state |->
                            IF t \in fin THEN "done" ELSE state[t]]
            /\ result' = [t \in DOMAIN result |->
                            IF t \in fin
                            THEN finishExecutionResult(info[t][1], info[t][2])
                            ELSE result[t]]
            /\ nfree' = returnResources(SumNp(fin)) 
            /\ started' = started \ fin
            /\ stopped' = stopped \cup fin
            /\ results_file' = testDone(fin, result')
    /\ pc' = "pop"
    /\ UNCHANGED <<cvars, xtlist, lastpop, remaining, finish, xvars, bvars>>

PollRunning == PollStep /\ UNCHANGED ovars

(***************************************************************************)
(* createTestExecs and the inputs it is run on.                            *)
(***************************************************************************)
\* tcase.getStat().getRuntime( None ), with 0 for None
getRuntime(t) ==
    IF t \in DOMAIN runtime /\ runtime[t] # None THEN runtime[t] ELSE 0

\* the greatest (tm, xdir) of the tests of S
MaxRuntime(S) ==
    CHOOSE x \in S : \A y \in S :
        \/ getRuntime(y) < getRuntime(x)
        \/ getRuntime(y) = getRuntime(x) /\ y <= x

RECURSIVE SetToSeqByXdir(_)
\* mutant: the members of a set of tests by descending execute directory
SetToSeqByXdir(S) ==
    IF S = {} THEN <<>> ELSE <<Max(S)>> \o SetToSeqByXdir(S \ {Max(S)})

RECURSIVE SetToSeq(_)
\* sortTestExecList: the members of a set of tests by descending
\* (runtime, xdir), an unknown runtime counting as 0
SetToSeq(S) ==
    IF S = {} THEN <<>>
    ELSE <<MaxRuntime(S)>> \o SetToSeq(S \ {MaxRuntime(S)})

RECURSIVE EdgeSeq(_, _)
\* the TestDependency list for the tests S matched by one pattern
EdgeSeq(S, e) ==
    IF S = {} THEN <<>>
    ELSE LET u == CHOOSE x \in S : \A y \in S : x <= y
         IN <<[to |-> u, expr |-> e]>> \o EdgeSeq(S \ {u}, e)

\* dependency graphs: test t depends on a set of tests before it
DepGraphs ==
    {d \in [Tests -> SUBSET Tests] : \A t \in Tests : d[t] \subseteq 1..(t - 1)}

\* mark_staged_tests: a staged test that is not the first stage depends on
\* the stage before it (the stage index follows the test index)
StageDeps(stg, t) ==
    IF t \in stg /\ \E s \in stg : s < t
    THEN <<[to |-> Max({s \in stg : s < t}), expr |-> <<"None">>]>>
    ELSE <<>>

\* the groups of staged siblings: none, or the first k tests as k >= 2 stages
StagedSets == {1..k : k \in (0..NumTests) \ {1}}

SkipSets == {{}} \cup {{t} : t \in Tests}

\* the graphs with a result expression for every test that has dependencies
\* and at most one skipped test (a skipped test has no TestExec and so no
\* dependencies are connected from it); every test needs one core
DepConfig ==
    \E d \in DepGraphs, ex \in [Tests -> Exprs], sk \in SkipSets :
        /\ \A t \in Tests : (d[t] = {} \/ t \in sk) => ex[t] = <<"None">>
        /\ \A t \in sk : d[t] = {}
        /\ np' = [t \in Tests |-> 1]
        /\ skip' = sk
        /\ staged' = {}
        /\ deps' = [t \in Tests |-> EdgeSeq(d[t], ex[t])]

\* every assignment of np, over the staged groups with no other dependency
PoolConfig ==
    \E stg \in StagedSets, p \in [Tests -> 1..MaxNp] :
        /\ np' = p
        /\ skip' = {}
        /\ staged' = stg
        /\ deps' = [t \in Tests |-> StageDeps(stg, t)]

\* _createTestExecList: the tests that are not skipped, one list per np
createTestExecList ==
    xtlist' = [n \in {np'[t] : t \in DOMAIN np' \ skip'} |->
                  SetToSeq({t \in DOMAIN np' \ skip' : np'[t] = n})]

\* createTestExecs: the run list is built from the active tests of the
\* TestList, sorted, and the dependencies are connected
createTestExecs ==
    /\ pc = "create"
    /\ DepConfig \/ PoolConfig
    /\ createTestExecList
    /\ pc' = "pop"
    /\ UNCHANGED <<state, result, started, stopped, nfree, lastpop, remaining,
                   rvars, xvars, bvars, ovars>>

(***************************************************************************)
(* Initial state: the TestList as scanned and the TestExecList as          *)
(* constructed, before createTestExecs.                                    *)
(***************************************************************************)
DirectInit ==
    /\ np = [t \in Tests |-> 1]
    /\ skip = {}
    /\ staged = {}
    /\ deps = [t \in Tests |-> <<>>]
    /\ state = [t \in Tests |-> "notrun"]
    /\ result = [t \in Tests |-> ""]
    /\ xtlist = <<>>
    /\ started = {}
    /\ stopped = {}
    /\ nfree = NumProcs
    /\ pc = "create"
    /\ lastpop = [t |-> NoTest, pass |-> 0]
    /\ remaining = <<>>
    /\ results_file = [t \in Tests |-> <<>>]
    /\ finish = 0

\* the TestExec as constructed: TestExec.__init__
ExecInit ==
    /\ now = 1
    /\ timeout = 0
    /\ pid = None
    /\ subpid = None
    /\ tstart = None
    /\ tstop = None
    /\ timedout = None
    /\ exit_status = None
    /\ wcode = None
    /\ sent = [sig \in {"SIGINT", "SIGTERM", "terminate"} |-> 0]
    /\ polled = FALSE
    /\ missed = FALSE
    /\ xstatus = ""

\* the Batcher and the BatchJobHandler as constructed
BatchInit ==
    /\ maxjobs = 0
    /\ qsleep = 15
    /\ testtimeout = [t \in Tests |-> 0]
    /\ jobs = <<>>
    /\ todo = {}
    /\ submitted = {}
    /\ bstopped = {}
    /\ bdone = {}
    /\ bjob = <<>>
    /\ queue = {}
    /\ outfile = <<>>
    /\ resfile = <<>>
    /\ journal = [t \in Tests |-> ""]
    /\ cancels = <<>>

\* the TestList as constructed: no test scanned, no exit code computed
ListInit ==
    /\ tcasemap = <<>>
    /\ xdirmap = <<>>
    /\ warnings = 0
    /\ lastread = [n |-> 0, tests |-> <<>>]
    /\ ival = None

QueueInit ==
    /\ max_timeout = None
    /\ qtime = <<>>
    /\ jobT = <<>>

\* the exception strings of the user plugin
ExcStrings == {"xs1", "xs2"}

AuxInit ==
    /\ launch = [t \in Tests |-> ""]
    /\ exc_uniq = {}
    /\ tracebacks = [xs \in ExcStrings |-> 0]
    /\ raised = {}
    /\ propagated = {}
    /\ ncalls = 0

HandleInit ==
    /\ resource_obj = [t \in Tests |-> <<>>]
    /\ pool = [next |-> 1, held |-> {}, nret |-> <<>>]

CallInit ==
    /\ HandleInit
    /\ fork = [numtries |-> 1, tries |-> 0, fails |-> 0, pause |-> 1,
               slept |-> <<>>, status |-> "idle"]
    /\ bump = [t |-> 0, r |-> 0, rnext |-> 0, n |-> 0]

DependInit ==
    /\ dmatch = [xdir |-> <<>>, pattern |-> <<>>, known |-> {}, found |-> {},
                 n |-> 0]
    /\ postclean = FALSE
    /\ cleaned = {}
    /\ runtime = <<>>
    /\ pgroup = [analyze |-> NoTest, tests |-> {}]
    /\ has_dependent = {}
    /\ CallInit

Init ==
    /\ DirectInit /\ ExecInit /\ BatchInit /\ ListInit /\ QueueInit
    /\ AuxInit /\ DependInit

Next == createTestExecs \/ StartNext \/ LoopExit \/ Sleep \/ PollRunning

Spec == Init /\ [][Next]_vars

\* every launched child eventually exits: a sweep in which some running test
\* finishes is taken if it is possible again and again
PollFinish == PollRunning /\ started' # started

FairSpec == Spec /\ WF_vars(Next) /\ SF_vars(PollFinish)

\* run_test_list: an exception or interrupt inside the loop; the finally
\* clause writes the finish marker
LoopException ==
    /\ pc \in {"pop", "poll"}
    /\ finish' = writeFinished
    /\ pc' = "aborted"
    /\ UNCHANGED <<cvars, state, result, xtlist, started, stopped, nfree,
                   lastpop, remaining, results_file, xvars, bvars, ovars>>

\* start_test of a test whose prepare_for_launch raises: the forked child
\* prints the traceback and exits with status 1 (on the forkless path the
\* exit status is set to 1), and TestExec.start returns
StartLaunchError ==
    /\ StartStep
    /\ launch' = [launch EXCEPT ![lastpop'.t] = "launch_error"]
    /\ UNCHANGED <<lvars, qvars, pvars, mvars>>

\* the sweep over the running tests, a test whose launch raised being
\* found with exit status 1
PollLaunched ==
    /\ PollRunning
    /\ \A t \in started \ started' :
          launch[t] = "launch_error" =>
              result'[t] = finishExecutionResult(1, None)

\* a start_test that marks the test fail and goes on
StartRaisesAndGoesOn ==
    /\ StartStep
    /\ \E e \in {"logfile_error", "fork_error"} :
          launch' = [launch EXCEPT ![lastpop'.t] = e]
    /\ UNCHANGED <<lvars, qvars, pvars, mvars>>

\* start_test of a test for which open() of the log file raises, or
\* os.fork() raises at each of the tries: TestExec.start raises after
\* moveToStarted and getResources, markStarted and appendTestResult are not
\* reached, and the exception leaves the loop through the finally clause
StartRaises ==
    /\ pc = "pop"
    /\ LET tnext == popNext IN
       /\ tnext # <<>>
       /\ LET n == tnext[1]
              i == tnext[2]
              t == xtlist[n][i]
          IN /\ xtlist' = pop_test_exec(n, i)
             /\ started' = started \cup {t}
             /\ nfree' = getResources(np[t])
             /\ lastpop' = [t |-> t, pass |-> tnext[3]]
             /\ \E e \in {"logfile_error", "fork_error"} :
                   launch' = [launch EXCEPT ![t] = e]
    /\ finish' = writeFinished
    /\ pc' = "aborted"
    /\ UNCHANGED <<cvars, state, result, stopped, remaining, results_file,
                   xvars, bvars, lvars, qvars, pvars, mvars>>

\* the direct run with launches that fail
SpecLaunch ==
    Init /\ [][createTestExecs \/ StartNext \/ StartLaunchError
                  \/ StartRaises \/ LoopExit \/ Sleep \/ PollLaunched]_vars

\* the process is killed in the middle of the run: nothing more is written
Killed ==
    /\ pc \in {"pop", "poll"}
    /\ pc' = "killed"
    /\ UNCHANGED <<cvars, state, result, xtlist, started, stopped, nfree,
                   lastpop, remaining, rvars, xvars, bvars, ovars>>

\* the direct run with exceptions, interrupts and kills
SpecAbort == Init /\ [][Next \/ LoopException \/ Killed]_vars

(***************************************************************************)
(* Properties of the direct-mode scheduler.                                *)
(***************************************************************************)
\* the dependency's test has a status that cannot change any more
Terminal(u) == isDone(u) \/ skipTest(u) \/ (isNotrun(u) /\ tcWillNeverRun(u))

\* the edge's target is terminal with a result that satisfies the predicate
EdgeSatisfied(tdep) ==
    /\ Terminal(tdep.to)
    /\ satisfiesResult(tdep.expr, getResultStatus(tdep.to))

\* C1: whenever popNext returns a test (the test enters started), every one of
\* its dependencies is, at that moment, terminal with a result satisfying the
\* edge's predicate, and is in particular neither running nor still runnable.
C1_DependentStartsAfterDependencies ==
    [][\A t \in started' \ started :
          \A i \in 1..Len(deps[t]) :
             /\ EdgeSatisfied(deps[t][i])
             /\ deps[t][i].to \notin started
             /\ deps[t][i].to \in Pending => isBlocked(deps[t][i].to)]_vars

\* a test with a dependency has just been returned by popNext and started
C1_Witness ==
    /\ pc = "poll"
    /\ lastpop.t # NoTest
    /\ numDependencies(lastpop.t) > 0
    /\ lastpop.t \in started

\* C2: the np of the running tests sum to at most the cores of the pool,
\* unless exactly one test is running and it alone needs more than the pool.
C2_ResourceSafety ==
    \/ SumNp(started) <= NumProcs
    \/ /\ Cardinality(started) = 1
       /\ \A t \in started : np[t] > NumProcs

\* an oversized test runs alone while other tests are pending
C2_Witness ==
    /\ \E t \in started : np[t] > NumProcs
    /\ Pending # {}

\* C3: with no test running, an unblocked pending test that the pool cannot
\* grant makes popNext return a test anyway; with a test running, popNext
\* returns no test whose resource query fails.
C3_OversizedTestCannotDeadlock ==
    [][pc = "pop" =>
         /\ (/\ started = {}
             /\ \E t \in Pending : ~isBlocked(t) /\ ~queryProcs(np[t]))
            => \E t \in Pending : started' = {t}
         /\ started # {}
            => \A t \in started' \ started : queryProcs(np[t])]_vars

\* popNext found its test in the second search, the one without the query
C3_Witness == lastpop.pass = 2 /\ lastpop.t \in started

ready(t) == ScanBucket(<<t>>, 1) = 1

\* C5: a pending test is ready iff every dependency edge is satisfied: the
\* target is done or skipped with a result satisfying the predicate, or is
\* notrun, will never run and its result satisfies the predicate; an edge
\* whose target is runnable, running or of a failing result blocks.
C5_ReadyIffEdgesSatisfied ==
    \A t \in Pending :
        /\ ready(t) <=> \A i \in 1..Len(deps[t]) : EdgeSatisfied(deps[t][i])
        /\ \A i \in 1..Len(deps[t]) :
              LET u == deps[t][i].to IN
              (\/ isNotDone(u)
               \/ (u \in Pending /\ ~tcWillNeverRun(u))
               \/ ~satisfiesResult(deps[t][i].expr, getResultStatus(u)))
              => isBlocking(deps[t][i])

\* a pending test is ready through a result="*" edge whose target will never
\* run
C5_Witness ==
    \E t \in Pending :
        /\ ready(t)
        /\ \E i \in 1..Len(deps[t]) :
              isNotrun(deps[t][i].to) /\ tcWillNeverRun(deps[t][i].to)

\* C6: the loop terminates; when it has, no test is running, every active
\* test has either finished or is in the list popRemaining returned, and every
\* test of that list has a dependency and a blocking dependency.
C6_LoopTerminates ==
    /\ <>(pc = "done")
    /\ [](pc = "done" =>
            /\ started = {}
            /\ Range(remaining) \cup stopped = Tests \ skip
            /\ \A t \in Range(remaining) :
                  /\ numDependencies(t) > 0
                  /\ getBlockingDependency(t) # NoTest)

\* the loop has ended with tests left over and with tests that ran
C6_Witness == pc = "done" /\ remaining # <<>> /\ stopped # {}


(***************************************************************************)
(* TestExec: one test's child process, polled by the run loop.             *)
(***************************************************************************)
MaxTimeout == 2      \* test timeouts range over 0..MaxTimeout
StartBy == 2         \* the test is started no later than this clock value
MaxClock == 36       \* the clock stops here

interrupt_to_kill_timeout == 30

\* wait statuses as os.waitpid reports them: exit code e is e*256, death by
\* signal g is g (plus 128 with a core dump), stopped by g is g*256 + 127
RawCodes == {0, 256, DIFF_EXIT_STATUS * 256, 2, 15, 9 + 128, 19 * 256 + 127}

WIFEXITED(code) == code % 128 = 0
WEXITSTATUS(code) == (code \div 256) % 256
WIFSIGNALED(code) == code % 128 # 0 /\ code % 128 # 127
WIFSTOPPED(code) == code % 256 = 127

\* the decoder without the signal test
decodeExitStatusOnly(exit_code) == WEXITSTATUS(exit_code)

decode_subprocess_exit_code(exit_code) ==
    IF WIFEXITED(exit_code) THEN WEXITSTATUS(exit_code)
    ELSE IF WIFSIGNALED(exit_code) \/ WIFSTOPPED(exit_code) THEN 1
    ELSE IF exit_code = 0 THEN 0
    ELSE 1

\* subprocess.Popen.poll(): the exit code, or minus the signal number
returncode(code) ==
    IF WIFEXITED(code) THEN WEXITSTATUS(code) ELSE 0 - (code % 128)

isStarted == tstart # None
execIsDone == tstop # None

\* the escalation test with its operands swapped
sigterm_due_swapped(tm) == (timedout - tm) > interrupt_to_kill_timeout

\* a SIGTERM test that does not wait for the interrupt to take effect
sigterm_due_at_once(tm) == tm >= timedout

\* poll(): SIGINT is not killing fast enough
sigterm_due(tm) == (tm - timedout) > interrupt_to_kill_timeout

\* signalJob(sig): os.kill on the fork path, terminate() on the forkless one
signalJob(sig) ==
    IF pid # None THEN [sent EXCEPT ![sig] = @ + 1]
    ELSE IF subpid # None THEN [sent EXCEPT !["terminate"] = @ + 1]
    ELSE sent

LaunchKinds == {"fork", "popen", "baseline_none", "launch_error"}

\* initialize_for_execution (setTimeout) and TestExec.start
start ==
    /\ ~isStarted
    /\ \E tmo \in 0..MaxTimeout, kind \in LaunchKinds :
          /\ timeout' = tmo
          /\ tstart' = now
          /\ pid' = IF kind = "fork" THEN 1 ELSE None
          /\ subpid' = IF kind = "popen" THEN 1 ELSE None
          /\ exit_status' = CASE kind = "baseline_none" -> 0
                              [] kind = "launch_error" -> 1
                              [] OTHER -> None
    /\ UNCHANGED <<now, tstop, timedout, wcode, sent, polled, missed, xstatus,
                   dvars, bvars, ovars>>

\* the clock advances by one second
Tick ==
    /\ now < MaxClock
    /\ isStarted \/ now < StartBy
    /\ ~execIsDone
    /\ now' = now + 1
    /\ polled' = FALSE
    /\ missed' = (missed \/ (isStarted /\ ~polled))
    /\ UNCHANGED <<timeout, pid, subpid, tstart, tstop, timedout, exit_status,
                   wcode, sent, xstatus, dvars, bvars, ovars>>

\* the child process ends with some wait status
ChildExit ==
    /\ pid # None \/ subpid # None
    /\ wcode = None
    /\ ~execIsDone
    /\ wcode' \in RawCodes
    /\ UNCHANGED <<now, timeout, pid, subpid, tstart, tstop, timedout,
                   exit_status, sent, polled, missed, xstatus, dvars, bvars,
                   ovars>>

\* TestExec.poll on the fork path: the fields it leaves behind
poll_pid ==
    IF wcode # None
    THEN \* cpid > 0: test finished
         [tstop |-> now,
          exit_status |-> IF timedout = None
                          THEN decode_subprocess_exit_code(wcode)
                          ELSE exit_status,
          timedout |-> timedout, sent |-> sent, transition |-> TRUE]
    ELSE IF timeout > 0 /\ now - tstart > timeout
    THEN IF timedout = None
         THEN [tstop |-> tstop, exit_status |-> exit_status,
               timedout |-> now, sent |-> signalJob("SIGINT"),
               transition |-> FALSE]
         ELSE IF sigterm_due(now)
         THEN [tstop |-> tstop, exit_status |-> exit_status,
               timedout |-> timedout, sent |-> signalJob("SIGTERM"),
               transition |-> FALSE]
         ELSE [tstop |-> tstop, exit_status |-> exit_status,
               timedout |-> timedout, sent |-> sent, transition |-> FALSE]
    ELSE [tstop |-> tstop, exit_status |-> exit_status,
          timedout |-> timedout, sent |-> sent, transition |-> FALSE]

\* TestExec.poll on the forkless path
poll_subpid ==
    IF subpid = None
    THEN \* test finished during startup
         [tstop |-> now, exit_status |-> exit_status,
          timedout |-> timedout, sent |-> sent, transition |-> TRUE]
    ELSE IF wcode # None
    THEN [tstop |-> now, exit_status |-> returncode(wcode),
          timedout |-> timedout, sent |-> sent, transition |-> TRUE]
    ELSE IF timeout > 0 /\ now - tstart > timeout
    THEN [tstop |-> now, exit_status |-> exit_status, timedout |-> now,
          sent |-> [sent EXCEPT !["terminate"] = @ + 1],
          transition |-> TRUE]
    ELSE [tstop |-> tstop, exit_status |-> exit_status,
          timedout |-> timedout, sent |-> sent, transition |-> FALSE]

\* the run loop polls the test; a test that just finished is handed to
\* ExecutionHandler.finishExecution
poll ==
    /\ isStarted /\ ~execIsDone
    /\ ~polled
    /\ LET r == IF pid # None THEN poll_pid ELSE poll_subpid IN
          /\ tstop' = r.tstop
          /\ exit_status' = r.exit_status
          /\ timedout' = r.timedout
          /\ sent' = r.sent
          /\ xstatus' = IF r.transition
                        THEN finishExecutionResult(r.exit_status, r.timedout)
                        ELSE xstatus
    /\ polled' = TRUE
    /\ UNCHANGED <<now, timeout, pid, subpid, tstart, wcode, missed, dvars,
                   bvars, ovars>>

ExecNext == start \/ Tick \/ ChildExit \/ poll

SpecExec == Init /\ [][ExecNext]_vars

(***************************************************************************)
(* Properties of the executor.                                             *)
(***************************************************************************)
\* a poll at the current clock value found the forked child alive
PolledAlive == pid # None /\ ~execIsDone /\ polled /\ timeout > 0

\* C7 as stated: a test with timeout > 0 that has been polled at every
\* clock value since its start and whose lifetime exceeds
\* timeout + interrupt_to_kill_timeout has received SIGTERM.
C7_SigtermByTimeoutPlusKill ==
    (PolledAlive /\ ~missed
        /\ now - tstart > timeout + interrupt_to_kill_timeout)
        => sent["SIGTERM"] >= 1

\* C7, amended: the first poll that finds the test alive with elapsed time
\* above the timeout sends SIGINT once and records that poll's time; a later
\* poll that finds it alive more than interrupt_to_kill_timeout after the
\* recorded time sends SIGTERM, and SIGTERM is never sent before that.
C7_SigintThenSigtermAfterKillTimeout ==
    /\ PolledAlive =>
          /\ now - tstart > timeout =>
                /\ timedout # None /\ timedout <= now
                /\ timedout - tstart > timeout
                /\ sent["SIGINT"] = 1
          /\ (timedout # None /\ now - timedout > interrupt_to_kill_timeout)
                => sent["SIGTERM"] >= 1
    /\ sent["SIGTERM"] >= 1 =>
          /\ sent["SIGINT"] = 1
          /\ timedout # None
          /\ now - timedout > interrupt_to_kill_timeout

C7_Witness ==
    PolledAlive /\ sent["SIGINT"] = 1 /\ sent["SIGTERM"] >= 1

\* C8: a finished test is marked timeout when the timed-out flag is set,
\* whatever the child's wait status; otherwise exit status 0 gives pass,
\* the diff exit status gives diff and anything else fail, where a forked
\* child that exited normally has its exit code as exit status and one
\* ended by a signal has exit status 1.
C8_StatusMapping ==
    xstatus # "" =>
        IF timedout # None
        THEN xstatus = "timeout"
        ELSE /\ xstatus = CASE exit_status = 0 -> "pass"
                            [] exit_status = DIFF_EXIT_STATUS -> "diff"
                            [] OTHER -> "fail"
             /\ pid # None =>
                   exit_status = IF wcode % 128 = 0
                                 THEN (wcode \div 256) % 256
                                 ELSE 1

C8_Witness ==
    /\ xstatus = "fail" /\ timedout = None
    /\ pid # None /\ wcode % 128 # 0 /\ exit_status = 1

(***************************************************************************)
(* Batch mode: BatchTestGrouper, Batcher, BatchJobHandler and run_batch.   *)
(***************************************************************************)
MaxJobs == 2           \* the job limit ranges over 1..MaxJobs
batch_length == 2      \* BatchTestGrouper.qlen
check_interval == 10   \* BatchJobHandler.check_interval
check_timeout == 30    \* BatchJobHandler.check_timeout
MaxSleeps == 3         \* the run loop sleeps at most this many times

\* the sleep lengths of run_batch: the default, and one above 30 s
SleepLengths == {15, 31}

Tzero == 21 * 60 * 60

RECURSIVE SortByTimeout(_)
\* xL.sort(): the tests of a bucket by ascending (timeout, xdir)
SortByTimeout(S) ==
    IF S = {} THEN <<>>
    ELSE LET t == CHOOSE x \in S : \A y \in S :
                     \/ testtimeout[x] < testtimeout[y]
                     \/ testtimeout[x] = testtimeout[y] /\ x <= y
         IN <<t>> \o SortByTimeout(S \ {t})

RECURSIVE GroupLoop(_, _, _, _, _, _)
\* the loop of _process_groups over xL from index i on: qL is the list of
\* groups so far, grpL the open group and tsum the sum of its timeouts
GroupLoop(xL, i, n, qL, grpL, tsum) ==
    IF i > Len(xL)
    THEN IF Len(grpL) > 0
         THEN Append(qL, [t |-> tsum, np |-> n, idx |-> Len(qL), grp |-> grpL])
         ELSE qL
    ELSE LET tcase == xL[i]
             rt == testtimeout[tcase]
         IN IF numDependencies(tcase) > 0 \/ rt < 1
            THEN GroupLoop(xL, i + 1, n,
                           Append(qL, [t |-> Tzero, np |-> n, idx |-> Len(qL),
                                       grp |-> <<tcase>>]),
                           grpL, tsum)
            ELSE IF Len(grpL) > 0 /\ tsum + rt > batch_length
            THEN GroupLoop(xL, i + 1, n,
                           Append(qL, [t |-> tsum, np |-> n, idx |-> Len(qL),
                                       grp |-> grpL]),
                           <<tcase>>, rt)
            ELSE GroupLoop(xL, i + 1, n, qL, Append(grpL, tcase), tsum + rt)

\* a grouping that puts the tests of a bucket into one group
process_groups_one_group(n) ==
    <<[t |-> Tzero, np |-> n,
       idx |-> 0, grp |-> SortByTimeout(Range(xtlist[n]))]>>

\* _process_groups
process_groups(n) ==
    GroupLoop(SortByTimeout(Range(xtlist[n])), 1, n, <<>>, <<>>, 0)

\* the order of qL.sort(): by time, then np, then index within the bucket
GroupLess(a, b) ==
    \/ a.t < b.t
    \/ a.t = b.t /\ a.np < b.np
    \/ a.t = b.t /\ a.np = b.np /\ a.idx < b.idx

RECURSIVE SortGroupsReverse(_)
\* qL.sort() ; qL.reverse() ; the test lists of the groups
SortGroupsReverse(S) ==
    IF S = {} THEN <<>>
    ELSE LET m == CHOOSE a \in S : \A b \in S \ {a} : GroupLess(b, a)
         IN <<m.grp>> \o SortGroupsReverse(S \ {m})

\* BatchTestGrouper.construct
construct ==
    SortGroupsReverse(UNION {Range(process_groups(n)) : n \in DOMAIN xtlist})

\* min
Min2(a, b) == IF a < b THEN a ELSE b

\* mutant: the overhead is not held to 15 minutes
apply_queue_timeout_bump_uncapped(q) ==
    IF q < 60 THEN q + 60
    ELSE IF q < 10 * 60 THEN q + q
    ELSE IF q < 30 * 60
    THEN q + 10 * 60 + ((q - 10 * 60) * 3) \div 10
    ELSE q + 10 * 60 + ((30 * 60 - 10 * 60) * 3) \div 10

\* apply_queue_timeout_bump_factor; int( float(x) * 0.3 ) of a whole number
\* x >= 0 is the whole part of 3x/10
apply_queue_timeout_bump_factor(q) ==
    IF q < 60 THEN q + 60
    ELSE IF q < 10 * 60 THEN q + q
    ELSE IF q < 30 * 60
    THEN q + Min2(15 * 60, 10 * 60 + ((q - 10 * 60) * 3) \div 10)
    ELSE q + Min2(15 * 60, 10 * 60 + ((30 * 60 - 10 * 60) * 3) \div 10)

RECURSIVE SumTimeouts(_, _)
\* for tcase in tlist.getTests(): qtime += int( timeout )
SumTimeouts(tlist, i) ==
    IF i > Len(tlist) THEN 0
    ELSE testtimeout[tlist[i]] + SumTimeouts(tlist, i + 1)

\* a queue time whose no-timeout length is not held to max_timeout
computeQueueTimeCapSumOnly(tlist, maxt) ==
    LET q0 == SumTimeouts(tlist, 1)
    IN IF q0 = 0 THEN Tzero
       ELSE IF maxt # None /\ maxt # 0
       THEN Min2(apply_queue_timeout_bump_factor(q0), maxt)
       ELSE apply_queue_timeout_bump_factor(q0)

\* BatchTestGrouper.computeQueueTime, maxt being self.max_timeout: None and
\* 0 are the values Python takes as false
computeQueueTime(tlist, maxt) ==
    LET q0 == SumTimeouts(tlist, 1)
        q1 == IF q0 = 0 THEN Tzero ELSE apply_queue_timeout_bump_factor(q0)
    IN IF maxt # None /\ maxt # 0 THEN Min2(q1, maxt) ELSE q1

\* mutant: every job script is given a -T argument
writeJobAlways(tl, q) ==
    IF q < 600 THEN 9 * q ELSE 10 * (q - 120)

\* JobMaker.writeJob for the tests tl and the queue time q: the -T argument
\* of the command, in tenths of a second (qtime*0.90 is 9q tenths)
writeJob(tl, q) ==
    IF Len(tl) = 1
    THEN IF q < 600 THEN 9 * q ELSE 10 * (q - 120)
    ELSE None

\* dependency graphs in which a test depends on at most one earlier test
BatchDepGraphs == {d \in DepGraphs : \A t \in Tests : Cardinality(d[t]) <= 1}

\* the tests of a batch run: all need one core, none is skipped, dependencies
\* carry the default result predicate, the timeouts are 1 except that the
\* first test may have none (0), and at most one test has a dependency or no
\* timeout (and so a job of its own)
BatchConfig ==
    \E d \in BatchDepGraphs, tm \in [Tests -> 0..1], mj \in 1..MaxJobs,
       qs \in SleepLengths :
        /\ \A t \in Tests : tm[t] = 0 => t = 1
        /\ Cardinality({t \in Tests : d[t] # {} \/ tm[t] = 0}) <= 1
        /\ np' = [t \in Tests |-> 1]
        /\ skip' = {}
        /\ staged' = {}
        /\ deps' = [t \in Tests |-> EdgeSeq(d[t], <<"None">>)]
        /\ testtimeout' = tm
        /\ maxjobs' = mj
        /\ qsleep' = qs

\* createTestExecs in a batch run, and the Batcher's construction
createBatchTestExecs ==
    /\ pc = "create"
    /\ BatchConfig
    /\ createTestExecList
    /\ pc' = "write"
    /\ UNCHANGED <<state, result, started, stopped, nfree, lastpop, remaining,
                   xvars, jobs, todo, submitted, bstopped, bdone, bjob, queue,
                   outfile, resfile, journal, cancels, rvars, ovars>>

\* Batcher.writeQsubScripts: one job per group, all of them todo
writeQsubScripts ==
    /\ pc = "write"
    /\ jobs' = construct
    /\ todo' = 1..Len(construct)
    /\ bjob' = [b \in 1..Len(construct) |->
                   [jobid |-> None, tstart |-> None, seen |-> FALSE,
                    tstop |-> None, tcheck |-> None, result |-> ""]]
    /\ outfile' = [b \in 1..Len(construct) |-> "none"]
    /\ resfile' = [b \in 1..Len(construct) |-> "none"]
    /\ qtime' = [b \in 1..Len(construct) |->
                    computeQueueTime(construct[b], max_timeout)]
    /\ jobT' = [b \in 1..Len(construct) |->
                   writeJob(construct[b], qtime'[b])]
    /\ pc' = "checkstart"
    /\ UNCHANGED <<cvars, state, result, xtlist, started, stopped, nfree,
                   lastpop, remaining, xvars, maxjobs, qsleep, testtimeout,
                   submitted, bstopped, bdone, queue, journal, cancels, rvars,
                   lvars, max_timeout,
                   avars, mvars>>

numStarted == Cardinality(submitted)
\* a count of the jobs in progress that leaves out the stopped jobs
numInFlightSubmitted == Cardinality(submitted)

numInFlight == Cardinality(submitted) + Cardinality(bstopped)

RECURSIVE JobBlocking(_, _)
JobBlocking(b, i) ==
    IF i > Len(jobs[b]) THEN NoTest
    ELSE IF getBlockingDependency(jobs[b][i]) # NoTest
    THEN getBlockingDependency(jobs[b][i])
    ELSE JobBlocking(b, i + 1)

\* a dependency check that never finds a blocking test
ResultsHandler_getBlockingDependencyNever(b) == NoTest

\* ResultsHandler.getBlockingDependency
ResultsHandler_getBlockingDependency(b) == JobBlocking(b, 1)

\* the job limit test with <= for <
belowJobLimitInclusive == numStarted <= maxjobs

\* checkstart: the job limit leaves room for one more job
belowJobLimit == numStarted < maxjobs

\* the batch ids checkstart can return: with the job limit not reached, the
\* first todo job in the iteration order of the dict that has no blocking
\* dependency (any such job, the iteration order of a dict being arbitrary)
checkstartIds ==
    IF belowJobLimit
    THEN {b \in todo : ResultsHandler_getBlockingDependency(b) = NoTest}
    ELSE {}

\* batchitf.submitJob: the job id the batch system gives the job
submitJob(b) == 100 + b

bjvars == <<maxjobs, qsleep, testtimeout, jobs>>
tvars == <<cvars, xtlist, started, nfree, lastpop, remaining, xrest>>

\* run_batch: checkstart launches a job. _start_job submits it to the batch
\* system and markJobStarted moves it from todo to submitted.
checkstart ==
    /\ pc = "checkstart"
    /\ \E b \in checkstartIds :
          /\ queue' = queue \cup {b}
          /\ todo' = todo \ {b}
          /\ submitted' = submitted \cup {b}
          /\ bjob' = [bjob EXCEPT
                 ![b].jobid = submitJob(b),
                 ![b].tstart = now,
                 ![b].tcheck = now + Max({1, (check_interval + 5) \div 10})]
    /\ pc' = "checkdone"
    /\ UNCHANGED <<tvars, state, result, stopped, now, bjvars, bstopped, bdone,
                   outfile, resfile, journal, cancels, rvars, ovars>>

\* run_batch: checkstart returns None with jobs in flight, the loop sleeps
sleep_with_info_check ==
    /\ pc = "checkstart"
    /\ checkstartIds = {}
    /\ numInFlight # 0
    /\ now + qsleep <= 1 + qsleep * MaxSleeps
    /\ now' = now + qsleep
    /\ pc' = "checkdone"
    /\ UNCHANGED <<tvars, state, result, stopped, bvars, rvars, ovars>>

\* run_batch: checkstart returns None with no job in flight; the loop is
\* left and Batcher.flush marks the jobs that are still todo as not run
flush ==
    /\ pc = "checkstart"
    /\ checkstartIds = {}
    /\ numInFlight = 0
    /\ todo' = {}
    /\ bdone' = bdone \cup todo
    /\ bjob' = [b \in DOMAIN bjob |->
                   IF b \in todo THEN [bjob[b] EXCEPT !.result = "notrun"]
                   ELSE bjob[b]]
    /\ pc' = "flushed"
    /\ UNCHANGED <<tvars, state, result, stopped, now, bjvars, submitted,
                   bstopped, queue, outfile, resfile, journal, cancels, rvars,
                   ovars>>

\* check_set_outfile_permissions, then BatchJob.outfileSeen
outfileSeen(b) == bjob[b].seen \/ outfile[b] # "none"

\* a stop test that takes either condition alone: the job is not in the
\* queue, or enough time has passed and its output file has been seen
check_stopped_job_either(b) ==
    \/ b \notin queue
    \/ now - bjob[b].tstart > 30 /\ outfileSeen(b)

\* _check_stopped_job: the job is not in the queue, and enough time has
\* passed since its start or its output file has been seen
check_stopped_job(b) ==
    /\ b \notin queue
    /\ now - bjob[b].tstart > 30 \/ outfileSeen(b)

\* the job's fields after _check_get_stopped_jobs
afterStopCheck(b) ==
    IF b \notin submitted THEN bjob[b]
    ELSE IF check_stopped_job(b)
    THEN [bjob[b] EXCEPT !.seen = outfileSeen(b), !.tstop = now,
                         !.tcheck = now]
    ELSE [bjob[b] EXCEPT !.seen = outfileSeen(b)]

isTimeToCheck(bj) == now > bj.tcheck + check_interval

\* a finish check that is set anew whatever the time
resetCheckTimeAlways(bj) == TRUE

\* resetCheckTime returns True: the check time is set to the current time
resetCheckTime(bj) ==
    bj.tstop = None \/ bj.tstop = 0 \/ now < bj.tstop + check_timeout

\* a finish test that looks at the output file only
check_for_clean_finish_outfile_only(b) ==
    outfile[b] = "clean"

\* _check_for_clean_finish
check_for_clean_finish(b) ==
    outfile[b] = "clean" /\ resfile[b] = "finished"

\* a mark that tests the results file before the output file
finish_job_mark_results_first(b) ==
    IF resfile[b] = "none" THEN "fail"
    ELSE IF outfile[b] = "none" THEN "notrun"
    ELSE "notdone"

\* _finish_job: the mark of a job that is given up
finish_job_mark(b) ==
    IF outfile[b] = "none" THEN "notrun"
    ELSE IF resfile[b] # "none" THEN "notdone"
    ELSE "fail"

\* a scan for finished jobs that also visits the submitted jobs
getStoppedAndStarted(stopNow) == submitted \cup bstopped

\* jobmon.getStopped() as _check_get_finished_tests sees it, stopNow being
\* the jobs that _check_get_stopped_jobs has just moved
getStopped(stopNow) == bstopped \cup stopNow

JobResults == {"pass", "fail"}
JournalEntries == {"", "notdone"} \cup JobResults

\* the records a job's results file can hold for the job's tests when the
\* manager finishes the job: a result for every test after a clean exit of
\* the job script; otherwise a result, a start record only, or no record
ResultsFileContents(bs) ==
    {jr \in [UNION {Range(jobs[b]) : b \in bs} -> JournalEntries] :
        \A b \in bs : \A t \in Range(jobs[b]) :
            outfile[b] = "clean" => jr[t] \in JobResults}

\* Batcher.checkdone: _check_get_stopped_jobs, then _check_get_finished_tests
\* with readJobResults for the jobs whose results file is read; journal
\* keeps what the results file of a finished job held for each test
checkdone ==
    /\ pc = "checkdone"
    /\ LET stopNow == {b \in submitted : check_stopped_job(b)}
           bj1 == [b \in DOMAIN bjob |-> afterStopCheck(b)]
           toCheck == {b \in getStopped(stopNow) : isTimeToCheck(bj1[b])}
           clean == {b \in toCheck : check_for_clean_finish(b)}
           extend == {b \in toCheck \ clean : resetCheckTime(bj1[b])}
           forced == (toCheck \ clean) \ extend
           readJobs == clean \cup
                       {b \in forced : finish_job_mark(b) = "notdone"}
           withFile == {b \in clean \cup forced : resfile[b] # "none"}
       IN /\ \E jr \in ResultsFileContents(withFile) :
                journal' = [t \in Tests |->
                               IF t \in DOMAIN jr THEN jr[t] ELSE journal[t]]
          /\ LET readTests == {t \in Tests : journal'[t] # "" /\
                                  \E b \in readJobs : t \in Range(jobs[b])}
             IN /\ state' = [t \in Tests |->
                      IF t \notin readTests THEN state[t]
                      ELSE IF journal'[t] = "notdone" THEN "notdone"
                      ELSE "done"]
                /\ result' = [t \in Tests |->
                      IF t \in readTests /\ journal'[t] # "notdone"
                      THEN journal'[t]
                      ELSE result[t]]
                /\ stopped' = stopped \cup
                              {t \in readTests : journal'[t] # "notdone"}
                /\ results_file' =
                      testDone({t \in readTests : journal'[t] # "notdone"},
                               result')
          /\ submitted' = ((submitted \ stopNow) \ clean) \ forced
          /\ bstopped' = ((bstopped \cup stopNow) \ clean) \ forced
          /\ bdone' = bdone \cup clean \cup forced
          /\ bjob' = [b \in DOMAIN bjob |->
                IF b \in clean THEN [bj1[b] EXCEPT !.result = "clean"]
                ELSE IF b \in forced
                THEN [bj1[b] EXCEPT !.result = finish_job_mark(b)]
                ELSE IF b \in extend THEN [bj1[b] EXCEPT !.tcheck = now]
                ELSE bj1[b]]
    /\ pc' = "checkstart"
    /\ UNCHANGED <<tvars, now, bjvars, todo, queue, outfile, resfile, cancels,
                   finish, ovars>>

\* the batch job starts to run: its output file appears
JobRuns ==
    /\ pc = "checkdone"
    /\ \E b \in queue :
          /\ outfile[b] = "none"
          /\ outfile' = [outfile EXCEPT ![b] = "partial"]
    /\ UNCHANGED <<dvars, xvars, bjvars, todo, submitted, bstopped, bdone,
                   bjob, queue, resfile, journal, cancels, ovars>>

\* the child run of a job that ends normally: the results file has its
\* finish marker and the output file its clean exit marker
JobEndsClean(b) ==
    /\ outfile' = [outfile EXCEPT ![b] = "clean"]
    /\ resfile' = [resfile EXCEPT ![b] = "finished"]

\* the child run of a job that is cut short: neither file has its marker
JobEndsKilled(b) ==
    /\ resfile' = [resfile EXCEPT ![b] = "partial"]
    /\ UNCHANGED outfile

\* the child run of a job that is left by an exception: run_test_list
\* writes the finish marker on its way out, the job script exits before
\* its clean exit marker
JobEndsAborted(b) ==
    /\ resfile' = [resfile EXCEPT ![b] = "finished"]
    /\ UNCHANGED outfile

\* the job script ends with its clean exit marker while the results file
\* does not show the finish marker
JobEndsUnmarked(b) ==
    /\ outfile' = [outfile EXCEPT ![b] = "clean"]
    /\ resfile' = [resfile EXCEPT ![b] = "partial"]

\* the files of a job that has been submitted, as the manager comes to see
\* them; the output file may be missing while the results file is there
JobEnds ==
    /\ pc = "checkdone"
    /\ \E b \in submitted \cup bstopped :
          /\ resfile[b] = "none"
          /\ \/ JobEndsClean(b) \/ JobEndsKilled(b)
             \/ JobEndsAborted(b) \/ JobEndsUnmarked(b)
    /\ UNCHANGED <<dvars, xvars, bjvars, todo, submitted, bstopped, bdone,
                   bjob, queue, journal, cancels, ovars>>

\* the batch system no longer lists the job
JobLeavesQueue ==
    /\ pc = "checkdone"
    /\ \E b \in queue : queue' = queue \ {b}
    /\ UNCHANGED <<dvars, xvars, bjvars, todo, submitted, bstopped, bdone,
                   bjob, outfile, resfile, journal, cancels, ovars>>

\* a cancel call that takes the stopped jobs too
cancelInFlightJobs ==
    LET jL == {bjob[b].jobid : b \in submitted \cup bstopped}
    IN IF jL # {} THEN Append(cancels, jL) ELSE cancels

\* Batcher.cancelStartedJobs: the value of cancels after the call
cancelStartedJobs ==
    LET jL == {bjob[b].jobid : b \in submitted}
    IN IF jL # {} THEN Append(cancels, jL) ELSE cancels

\* Batcher.shutdown: cancels the jobs that are submitted
Batcher_shutdown == cancelStartedJobs

\* run_batch: the finally clause after the loop and the flush
shutdown ==
    /\ pc = "flushed"
    /\ cancels' = Batcher_shutdown
    /\ pc' = "exit"
    /\ UNCHANGED <<tvars, state, result, stopped, now, bjvars, todo, submitted,
                   bstopped, bdone, bjob, queue, outfile, resfile, journal,
                   rvars, ovars>>

\* run_batch: an interrupt or exception inside the loop, and the finally
\* clause it leads to
KeyboardInterrupt ==
    /\ pc \in {"checkstart", "checkdone"}
    /\ cancels' = Batcher_shutdown
    /\ pc' = "aborted"
    /\ UNCHANGED <<tvars, state, result, stopped, now, bjvars, todo, submitted,
                   bstopped, bdone, bjob, queue, outfile, resfile, journal,
                   rvars, ovars>>

BatchNext ==
    \/ createBatchTestExecs \/ writeQsubScripts
    \/ checkstart \/ sleep_with_info_check \/ flush \/ checkdone
    \/ shutdown
    \/ JobRuns \/ JobEnds \/ JobLeavesQueue

SpecBatch == Init /\ [][BatchNext]_vars

\* a run in either mode, direct or batch
SpecRuns == Init /\ [][Next \/ BatchNext]_vars

\* the batch run with interrupts
SpecBatchInt == Init /\ [][BatchNext \/ KeyboardInterrupt]_vars

(***************************************************************************)
(* Properties of the batch manager.                                        *)
(***************************************************************************)
\* C9: the number of batch jobs in the submitted state never exceeds the
\* job limit.
C9_SubmittedWithinJobLimit == Cardinality(submitted) <= maxjobs

C9_Witness ==
    /\ pc = "checkstart"
    /\ Cardinality(submitted) = maxjobs
    /\ \E b \in todo : ResultsHandler_getBlockingDependency(b) = NoTest

\* C10: when a job goes from todo to submitted, every dependency edge of
\* every test of the job is satisfied, so no test of the job is blocked by
\* the predicate the direct-mode scheduler uses.
C10_SubmitOnlyUnblockedJobs ==
    [][\A b \in submitted' \ submitted :
          /\ b \in todo
          /\ \A t \in Range(jobs[b]) :
                /\ ~isBlocked(t)
                /\ \A i \in 1..Len(deps[t]) : EdgeSatisfied(deps[t][i])]_vars

C10_Witness ==
    \E b \in submitted : \E t \in Range(jobs[b]) : numDependencies(t) > 0

\* the place of job b in the chain todo, submitted, stopped, done, given the
\* four maps of the job handler
JobRank(b, td, sb, st, dn) ==
    CASE b \in td -> 0
      [] b \in sb -> 1
      [] b \in st -> 2
      [] b \in dn -> 3
      [] OTHER -> 4

\* C11 as stated: every state change of a batch job is one step along the
\* chain todo, submitted, stopped, done, the end-of-run flush included.
C11_OneStepAlongChain ==
    [][\A b \in DOMAIN bjob :
          LET r == JobRank(b, todo, submitted, bstopped, bdone)
              r2 == JobRank(b, todo', submitted', bstopped', bdone')
          IN r2 = r \/ r2 = r + 1]_vars

\* C11: every state change of a batch job is one step along the chain todo,
\* submitted, stopped, done, with no backward move, except that the
\* end-of-run flush moves the jobs that are still todo straight to done with
\* the result notrun.
C11_OneStepOrFlush ==
    [][\A b \in DOMAIN bjob :
          LET r == JobRank(b, todo, submitted, bstopped, bdone)
              r2 == JobRank(b, todo', submitted', bstopped', bdone')
          IN \/ r2 = r /\ r < 4
             \/ r2 = r + 1 /\ r2 < 4
             \/ /\ r = 0 /\ r2 = 3
                /\ pc = "checkstart" /\ pc' = "flushed"
                /\ numInFlight = 0
                /\ bjob'[b].result = "notrun"]_vars

C11_Witness ==
    /\ pc = "flushed"
    /\ \E b \in bdone : bjob[b].result = "clean" /\ bjob[b].tstop # None
    /\ \E b \in bdone : bjob[b].result = "notrun" /\ bjob[b].tstart = None

\* a call of Batcher.checkdone
checkdoneStep == pc = "checkdone" /\ pc' = "checkstart"

\* C12 as stated: at a poll, a submitted job becomes stopped when the
\* batch system no longer lists it, and also when more than 30 s have passed
\* since its start time and its output file has been seen.
C12_StoppedOnEitherCondition ==
    [][checkdoneStep =>
          \A b \in submitted :
              (\/ b \notin queue
               \/ /\ now - bjob[b].tstart > 30
                  /\ bjob[b].seen \/ outfile[b] # "none")
              => b \in bstopped']_vars

\* C12: at a poll, a submitted job becomes stopped exactly when the batch
\* system no longer lists it and, in addition, more than 30 s have passed
\* since its start time or its output file has been seen; its stop time is
\* the time of that poll.
C12_StoppedWhenUnlistedAndStarted ==
    [][checkdoneStep =>
          \A b \in submitted :
              /\ b \in bstopped' <=>
                    /\ b \notin queue
                    /\ \/ now - bjob[b].tstart > 30
                       \/ bjob[b].seen \/ outfile[b] # "none"
              /\ b \in bstopped' => bjob'[b].tstop = now
              /\ b \notin bstopped' => b \in submitted']_vars

C12_Witness ==
    /\ \E b \in bstopped :
          ~bjob[b].seen /\ bjob[b].tstop - bjob[b].tstart > 30
    /\ \E b \in submitted :
          b \notin queue /\ ~bjob[b].seen /\ now - bjob[b].tstart <= 30

\* C13: a job is marked done with the result clean only when it was
\* stopped, its output file has the clean exit marker and its results file
\* the finish marker; the status of each of its tests has then been read
\* from the results file.
C13_CleanOnlyWithBothMarkers ==
    \A b \in DOMAIN bjob :
        bjob[b].result = "clean" =>
            /\ b \in bdone
            /\ bjob[b].tstop # None
            /\ outfile[b] = "clean"
            /\ resfile[b] = "finished"
            /\ \A t \in Range(jobs[b]) :
                  /\ journal[t] \in JobResults
                  /\ state[t] = "done"
                  /\ result[t] = journal[t]
                  /\ t \in stopped

C13_Witness ==
    \E b \in bdone :
        /\ bjob[b].result = "clean"
        /\ Len(jobs[b]) = 2
        /\ result[jobs[b][1]] = "fail" /\ result[jobs[b][2]] = "pass"

\* the stopped jobs the manager has given up
givenUp == {b \in bdone : bjob[b].tstop # None /\ bjob[b].result # "clean"}

\* C14: a stopped job that the manager gives up gets the result notrun if
\* its output file does not exist, fail if the output file exists and the
\* results file does not, and notdone if both files exist and the results
\* file has no finish marker.
C14_SyntheticResult ==
    \A b \in givenUp :
        /\ bjob[b].result \in {"notrun", "notdone", "fail"}
        /\ outfile[b] = "none" => bjob[b].result = "notrun"
        /\ (outfile[b] # "none" /\ resfile[b] = "none")
              => bjob[b].result = "fail"
        /\ (outfile[b] # "none" /\ resfile[b] = "partial")
              => bjob[b].result = "notdone"

C14_Witness ==
    /\ \E b \in givenUp : bjob[b].result = "fail"
    /\ \E b \in givenUp : bjob[b].result = "notdone" /\ resfile[b] = "partial"

\* C15: when checkdone gives up a job (missing output file, missing results
\* file or missing finish marker) the job is done with its synthetic result,
\* every test of the job that its results file records as done has that
\* result in the test list, the tests of the jobs not finished by this call
\* are left as they were, and the run goes on with the jobs still to do.
C15_AnomalyIsolated ==
    [][checkdoneStep =>
          LET finished == bdone' \ bdone
              gaveUp == {b \in finished : bjob'[b].result # "clean"}
          IN /\ \A b \in gaveUp :
                   /\ bjob'[b].result \in {"notrun", "notdone", "fail"}
                   /\ \A t \in Range(jobs[b]) :
                         journal'[t] \in JobResults =>
                             /\ state'[t] = "done"
                             /\ result'[t] = journal'[t]
             /\ \A t \in Tests :
                   (\A b \in finished : t \notin Range(jobs[b])) =>
                       state'[t] = state[t] /\ result'[t] = result[t]
             /\ todo' = todo
             /\ submitted \ submitted' \subseteq bstopped']_vars

\* C16: when a batch run shuts down, after the flush or after an interrupt
\* or exception in the loop, the adapter's cancel is called once with the
\* job ids of exactly the jobs in the submitted state, and is not called
\* when no job is submitted; it is never called before the shutdown.
C16_CancelExactlySubmitted ==
    IF pc \in {"exit", "aborted"}
    THEN IF submitted = {}
         THEN cancels = <<>>
         ELSE /\ cancels = <<{bjob[b].jobid : b \in submitted}>>
              /\ \A b \in DOMAIN bjob :
                    bjob[b].jobid \in cancels[1] <=> b \in submitted
    ELSE cancels = <<>>

C16_Witness ==
    /\ pc = "aborted"
    /\ submitted # {} /\ bstopped # {}
    /\ Len(cancels) = 1

(***************************************************************************)
(* Properties of the results file.                                         *)
(***************************************************************************)
\* the records of test t in the results file that carry a final result
TerminalRecords(t) ==
    {i \in DOMAIN results_file[t] : results_file[t][i] \in ExitResults}

\* C17: for every test that reached a final status during the run, in
\* direct or in batch mode, the results file holds exactly one record with
\* a final result for that test, and it carries the test's result.
C17_OneTerminalRecord ==
    \A t \in Tests :
        state[t] = "done" =>
            /\ Cardinality(TerminalRecords(t)) = 1
            /\ \A i \in TerminalRecords(t) : results_file[t][i] = result[t]

C17_Witness ==
    /\ \E t \in Tests : results_file[t] = <<"notdone", "timeout">>
    /\ \E t \in Tests : state[t] = "notdone" /\ results_file[t] = <<"notdone">>

\* C18 as stated: the results file has a finish marker exactly when the run
\* completed without abort.
C18_FinishIffNoAbort ==
    /\ finish > 0 <=> pc = "done"
    /\ pc = "aborted" => finish = 0

\* C18: the results file of a direct run has a finish marker, exactly one,
\* once the scheduler loop has been left, at its normal end or by an
\* exception or interrupt, and has none while the loop runs or when the
\* process was killed inside the loop.
C18_FinishOnceLoopLeft ==
    finish = IF pc \in {"done", "aborted"} THEN 1 ELSE 0

C18_Witness ==
    /\ pc = "aborted" /\ finish = 1
    /\ started # {} /\ stopped # {}

(***************************************************************************)
(* TestList.encodeIntegerWarning: the exit code of the run.                *)
(***************************************************************************)
\* an update of the value that adds the bit instead of setting it
BitAdd(a, b) == a + b

RECURSIVE BitOr(_, _)
\* a | b on non-negative integers
BitOr(a, b) ==
    IF a = 0 THEN b
    ELSE IF b = 0 THEN a
    ELSE (IF a % 2 = 1 \/ b % 2 = 1 THEN 1 ELSE 0)
         + 2 * BitOr(a \div 2, b \div 2)

\* the value encodeIntegerWarning returns for the tests of the list
encodeIntegerWarning ==
    LET bit(res) == CASE res = "diff" -> 2^1
                      [] res = "fail" -> 2^2
                      [] res = "timeout" -> 2^3
                      [] res = "notdone" -> 2^4
                      [] res = "notrun" -> 2^5
                      [] OTHER -> 0
        RECURSIVE loop(_, _)
        loop(S, iv) ==
            IF S = {} THEN iv
            ELSE LET t == CHOOSE x \in S : TRUE
                 IN IF ~skipTest(t)
                    THEN loop(S \ {t}, BitOr(iv, bit(getResultStatus(t))))
                    ELSE loop(S \ {t}, iv)
    IN loop(DOMAIN state, 0)

\* a TestList whose tests have any status, as read from results files
EncodeInit ==
    /\ ExecInit /\ BatchInit /\ ListInit /\ QueueInit /\ AuxInit
    /\ DependInit
    /\ np = [t \in Tests |-> 1]
    /\ skip \in SUBSET Tests
    /\ staged = {}
    /\ deps = [t \in Tests |-> <<>>]
    /\ state \in [Tests -> {"notrun", "notdone", "done"}]
    /\ result \in [Tests -> ExitResults \cup {""}]
    /\ \A t \in Tests : result[t] = "" <=> state[t] # "done"
    /\ xtlist = <<>>
    /\ started = {}
    /\ stopped = {}
    /\ nfree = NumProcs
    /\ pc = "exit"
    /\ lastpop = [t |-> NoTest, pass |-> 0]
    /\ remaining = <<>>
    /\ results_file = [t \in Tests |-> <<>>]
    /\ finish = 0

\* the call of encodeIntegerWarning at the end of the run
exitWithWarning ==
    /\ ival = None
    /\ ival' = encodeIntegerWarning
    /\ UNCHANGED <<dvars, xvars, bvars, tcasemap, xdirmap, warnings, lastread,
                   qvars, avars, mvars>>

SpecEncode == EncodeInit /\ [][exitWithWarning]_vars

\* C19: the value of encodeIntegerWarning has bit 2 set iff some test that
\* is not skipped has the result diff, 4 iff fail, 8 iff timeout, 16 iff
\* notdone, 32 iff notrun; no other bit is set, and the value is 0 iff no
\* test that is not skipped has one of these results.
C19_ExitCodeEncodesResultKinds ==
    ival # None =>
        LET kinds == <<"diff", "fail", "timeout", "notdone", "notrun">>
            present(k) == \E t \in Tests \ skip :
                             getResultStatus(t) = kinds[k]
        IN /\ ival \in 0..63
           /\ ival % 2 = 0
           /\ \A k \in 1..5 : ((ival \div 2^k) % 2 = 1) <=> present(k)
           /\ ival = 0 <=> ~\E k \in 1..5 : present(k)

C19_Witness ==
    /\ ival = 4
    /\ \E t \in skip : state[t] = "done" /\ result[t] = "diff"
    /\ \E t, u \in Tests \ skip :
          t # u /\ getResultStatus(t) = "fail" /\ getResultStatus(u) = "fail"

(***************************************************************************)
(* TestList.readTestFile: the store of scanned tests.                      *)
(***************************************************************************)
MaxStage == 2       \* a staged test has a stage index in 1..MaxStage
MaxReads == 3       \* number of readTestFile calls
MaxFileTests == 2   \* number of tests one test file creates

\* the test specifications: the test file, the execute directory as a
\* string of name tokens, and the stage index (0 for a test without stages)
TestSpecs == [file : {"f", "g"}, xdir : {<<"a">>, <<"b">>}, stage : 0..MaxStage]

getExecuteDirectory(tspec) == tspec.xdir

\* the display string of a staged test is its execute directory followed by
\* the stage; for other tests the two are equal
getDisplayString(tspec) ==
    IF tspec.stage = 0 THEN tspec.xdir
    ELSE tspec.xdir \o <<"stage", tspec.stage>>

\* str.startswith
startswith(str, prefix) ==
    Len(prefix) <= Len(str) /\ SubSeq(str, 1, Len(prefix)) = prefix

\* a staging relation that does not compare the file names
tests_are_related_by_staging_any_file(tspec1, tspec2) ==
    LET xdir1 == getExecuteDirectory(tspec1)
        disp1 == getDisplayString(tspec1)
        xdir2 == getExecuteDirectory(tspec2)
        disp2 == getDisplayString(tspec2)
    IN /\ xdir1 = xdir2
       /\ xdir1 # disp1 /\ startswith(disp1, xdir1)
       /\ xdir2 # disp2 /\ startswith(disp2, xdir2)

tests_are_related_by_staging(tspec1, tspec2) ==
    LET xdir1 == getExecuteDirectory(tspec1)
        disp1 == getDisplayString(tspec1)
        xdir2 == getExecuteDirectory(tspec2)
        disp2 == getDisplayString(tspec2)
    IN /\ xdir1 = xdir2
       /\ tspec1.file = tspec2.file
       /\ xdir1 # disp1 /\ startswith(disp1, xdir1)
       /\ xdir2 # disp2 /\ startswith(disp2, xdir2)

\* _is_duplicate_execute_directory, xm being the xdirmap
is_duplicate_execute_directory(xm, tspec) ==
    LET xdir == getExecuteDirectory(tspec)
    IN /\ xdir \in DOMAIN xm
       /\ ~tests_are_related_by_staging(xm[xdir], tspec)

RECURSIVE ReadLoop(_, _, _)
\* the loop of readTestFile over testL from index i on; st holds the two
\* maps and the number of warnings, and the test id is the specification
ReadLoop(testL, i, st) ==
    IF i > Len(testL) THEN st
    ELSE LET tspec == testL[i]
         IN IF is_duplicate_execute_directory(st.xm, tspec)
            THEN ReadLoop(testL, i + 1, [st EXCEPT !.w = @ + 1])
            ELSE ReadLoop(testL, i + 1,
                     [st EXCEPT
                        !.tm = [id \in DOMAIN st.tm \cup {tspec} |->
                                   IF id = tspec THEN lastread.n + 1
                                   ELSE st.tm[id]],
                        !.xm = [x \in DOMAIN st.xm \cup {tspec.xdir} |->
                                   IF x = tspec.xdir THEN tspec
                                   ELSE st.xm[x]]])

\* readTestFile on a test file that creates the tests testL
readTestFile ==
    /\ lastread.n < MaxReads
    /\ \E f \in {"f", "g"}, k \in 1..MaxFileTests :
         \E testL \in [1..k -> {ts \in TestSpecs : ts.file = f}] :
            LET st == ReadLoop(testL, 1,
                               [tm |-> tcasemap, xm |-> xdirmap, w |-> warnings])
            IN /\ tcasemap' = st.tm
               /\ xdirmap' = st.xm
               /\ warnings' = st.w
               /\ lastread' = [n |-> lastread.n + 1, tests |-> testL]
    /\ UNCHANGED <<dvars, xvars, bvars, ival, qvars, avars, mvars>>

SpecScan == Init /\ [][readTestFile]_vars

\* C20: after every readTestFile call, two different tests of the store
\* have different execute directories unless both are staged tests of the
\* same test file; and a call that creates one test without stages whose
\* execute directory is that of a stored test leaves the store as it was
\* and gives one warning.
C20_ExecuteDirectoriesDistinct ==
    [][/\ \A a, b \in DOMAIN tcasemap' :
             a # b =>
                 \/ a.xdir # b.xdir
                 \/ a.file = b.file /\ a.stage # 0 /\ b.stage # 0
       /\ \A ts \in TestSpecs :
             (/\ lastread'.tests = <<ts>>
              /\ ts.stage = 0
              /\ \E a \in DOMAIN tcasemap : a.xdir = ts.xdir)
             => /\ tcasemap' = tcasemap
                /\ xdirmap' = xdirmap
                /\ warnings' = warnings + 1]_vars

C20_Witness ==
    /\ \E a, b \in DOMAIN tcasemap :
          /\ a # b /\ a.xdir = b.xdir
          /\ tcasemap[a] = 1 /\ tcasemap[b] = 1
    /\ lastread.n = 2 /\ Len(lastread.tests) = 1
    /\ lastread.tests[1].stage = 0
    /\ \E a \in DOMAIN tcasemap : a.xdir = lastread.tests[1].xdir
    /\ warnings = 1

(***************************************************************************)
(* BatchTestGrouper.construct over the iteration order of the np buckets.  *)
(***************************************************************************)
\* a sort key that holds the time of the group only
SortKeyTimeOnly(g) == <<g.t>>

\* the entries of qL are lists [ tsum, np, len(qL), grpL ]: qL.sort()
\* compares the time, then np, then the index within the bucket; the three
\* differ between any two entries, so that the test lists are not compared
SortKey(g) == <<g.t, g.np, g.idx>>

\* the order of Python lists of numbers of one length
SeqLess(a, b) ==
    \E i \in 1..Len(a) : a[i] < b[i] /\ \A j \in 1..(i - 1) : a[j] = b[j]

RECURSIVE sortGroups(_)
\* qL.sort(), a stable sort: the last entry is put after the entries of the
\* sorted rest that are not above it
sortGroups(qL) ==
    IF qL = <<>> THEN <<>>
    ELSE LET g == qL[Len(qL)]
             s == sortGroups(SubSeq(qL, 1, Len(qL) - 1))
             above == {i \in 1..Len(s) : SeqLess(SortKey(g), SortKey(s[i]))}
             at == IF above = {} THEN Len(s) + 1
                   ELSE CHOOSE i \in above : \A j \in above : i <= j
         IN SubSeq(s, 1, at - 1) \o <<g>> \o SubSeq(s, at, Len(s))

\* the orders in which the keys of the xtlist dict can be iterated
BucketOrders ==
    {o \in [1..Cardinality(DOMAIN xtlist) -> DOMAIN xtlist] :
        \A i, j \in DOMAIN o : i # j => o[i] # o[j]}

RECURSIVE extendGroups(_, _)
\* for np in getTestExecProcList(): qL.extend( _process_groups( np ) )
extendGroups(order, i) ==
    IF i > Len(order) THEN <<>>
    ELSE process_groups(order[i]) \o extendGroups(order, i + 1)

\* BatchTestGrouper.construct with the buckets iterated in the given order
constructInOrder(order) ==
    LET qL == sortGroups(extendGroups(order, 1))
    IN [i \in 1..Len(qL) |-> qL[Len(qL) + 1 - i].grp]

\* the timeouts of the tests handed to the grouper: none, within
\* batch_length, and on both sides of the steps of the queue time bump
GroupTimeouts == {0, 1, 59, 60, 1000, 30 * 60}

\* the values of max_timeout: not given, zero, and below and above Tzero
MaxTimeouts == {None, 0, 100, 24 * 60 * 60}

\* the tests handed to the Batcher: any np, a dependency on at most one
\* earlier test
GroupInit ==
    /\ ExecInit /\ ListInit /\ AuxInit /\ DependInit
    /\ np \in [Tests -> 1..MaxNp]
    /\ testtimeout \in [Tests -> GroupTimeouts]
    /\ max_timeout \in MaxTimeouts
    /\ qtime = <<>>
    /\ jobT = <<>>
    /\ \E d \in BatchDepGraphs :
          deps = [t \in Tests |-> EdgeSeq(d[t], <<"None">>)]
    /\ skip = {} /\ staged = {}
    /\ xtlist = [n \in {np[t] : t \in Tests} |->
                    SetToSeq({t \in Tests : np[t] = n})]
    /\ state = [t \in Tests |-> "notrun"]
    /\ result = [t \in Tests |-> ""]
    /\ started = {} /\ stopped = {} /\ nfree = NumProcs
    /\ lastpop = [t |-> NoTest, pass |-> 0]
    /\ remaining = <<>>
    /\ results_file = [t \in Tests |-> <<>>] /\ finish = 0
    /\ maxjobs = 1 /\ qsleep = 15
    /\ jobs = <<>> /\ todo = {} /\ submitted = {} /\ bstopped = {}
    /\ bdone = {} /\ bjob = <<>> /\ queue = {}
    /\ outfile = <<>> /\ resfile = <<>>
    /\ journal = [t \in Tests |-> ""]
    /\ cancels = <<>>
    /\ pc = "write"

\* Batcher.writeQsubScripts, the dict of buckets being iterated in some
\* order: the groups, and the queue time of each
constructGroups ==
    /\ pc = "write"
    /\ \E order \in BucketOrders :
          /\ jobs' = constructInOrder(order)
          /\ qtime' = [b \in DOMAIN jobs' |->
                          computeQueueTime(jobs'[b], max_timeout)]
          /\ jobT' = [b \in DOMAIN jobs' |-> writeJob(jobs'[b], qtime'[b])]
    /\ pc' = "grouped"
    /\ UNCHANGED <<cvars, state, result, xtlist, started, stopped, nfree,
                   lastpop, remaining, rvars, xvars, maxjobs, qsleep,
                   testtimeout, todo, submitted, bstopped, bdone, bjob,
                   queue, outfile, resfile, journal, cancels, lvars,
                   max_timeout, avars, mvars>>

SpecGroup == GroupInit /\ [][constructGroups]_vars

\* C21: the groups that construct produced for a set of tests are the
\* groups it produces for these tests with the np buckets iterated in any
\* other order: the same groups with the same members in the same sequence.
C21_GroupingDeterministic ==
    pc = "grouped" => \A order \in BucketOrders : constructInOrder(order) = jobs

\* groups of equal time in two buckets: two tests without timeout that
\* differ in np, besides a group of tests with timeouts
C21_Witness ==
    /\ pc = "grouped"
    /\ \E t1, t2 \in Tests :
          /\ np[t1] # np[t2]
          /\ testtimeout[t1] = 0 /\ testtimeout[t2] = 0
    /\ Len(jobs) = 3

\* the overhead that the queue time schedule adds to a sum of timeouts
Overhead(t) ==
    IF t < 60 THEN 60
    ELSE IF t < 600 THEN t
    ELSE IF t < 1800 THEN Min2(900, 600 + (3 * (t - 600)) \div 10)
    ELSE 900

\* the sum of the timeouts of the tests of job b
MemberSum(b) ==
    LET RECURSIVE Sum(_)
        Sum(S) == IF S = {} THEN 0
                  ELSE LET t == CHOOSE x \in S : TRUE
                       IN testtimeout[t] + Sum(S \ {t})
    IN Sum(Range(jobs[b]))

\* C22: the queue time of a job is the no-timeout length of 21 hours when
\* the timeouts of its tests sum to zero and the sum plus the overhead
\* otherwise, held to max_timeout in both cases when max_timeout is set.
C22_QueueTime ==
    pc = "grouped" =>
        \A b \in DOMAIN jobs :
            LET base == IF MemberSum(b) = 0 THEN 21 * 3600
                        ELSE MemberSum(b) + Overhead(MemberSum(b))
            IN IF max_timeout \in {None, 0}
               THEN qtime[b] = base
               ELSE /\ qtime[b] = Min2(base, max_timeout)
                    /\ qtime[b] <= max_timeout

\* a job without timeouts held to max_timeout, a job of two tests and a
\* job whose sum is on the third step of the schedule
C22_Witness ==
    /\ pc = "grouped"
    /\ max_timeout = 100
    /\ \E b1, b2 \in DOMAIN jobs :
          /\ MemberSum(b1) = 0 /\ qtime[b1] = 100
          /\ Len(jobs[b2]) = 2 /\ qtime[b2] = 62

(***************************************************************************)
(* Launch failures in the direct run.                                      *)
(***************************************************************************)
\* C23 as stated: a test whose launch failed is marked fail once it is no
\* longer running, and the run loop has not been left by an exception.
C23_LaunchFailureIsFail ==
    \A t \in Tests :
        launch[t] # "" =>
            /\ pc # "aborted"
            /\ t \notin started => isDone(t) /\ result[t] = "fail"

\* C23, amended: a test whose launch fails inside prepare_for_launch is
\* marked fail when it is polled and the run loop goes on; a test for which
\* the log file cannot be opened or fork fails at every try is not marked,
\* and the exception ends the run loop, the finish marker being written.
C23_LaunchErrorIsFailOthersAbort ==
    /\ \A t \in Tests :
          /\ launch[t] = "launch_error" =>
                t \in started \/ (isDone(t) /\ result[t] = "fail")
          /\ launch[t] \in {"logfile_error", "fork_error"} =>
                /\ pc = "aborted" /\ finish = 1
                /\ t \in started /\ isNotrun(t) /\ results_file[t] = <<>>
    /\ pc = "aborted" =>
          \E t \in Tests : launch[t] \in {"logfile_error", "fork_error"}

\* a test that failed to launch was marked fail, a later test was started
\* and the start of a third one raised
C23_Witness ==
    \E t, u, v \in Tests :
        /\ launch[t] = "launch_error" /\ result[t] = "fail"
        /\ launch[u] = "" /\ isDone(u)
        /\ launch[v] = "fork_error" /\ pc = "aborted"

(***************************************************************************)
(* The exceptions of the user plugin and of the batch interface.           *)
(***************************************************************************)
MaxCalls == 4      \* number of calls of the plugin and the batch interface

\* what a call of an external function does: it returns, or raises an
\* exception with one of the exception strings
Outcomes == {"returns"} \cup ExcStrings

\* sys.stdout.write( tb )
write_traceback(xs) == [tracebacks EXCEPT ![xs] = @ + 1]

\* UserPluginBridge._check_print_exc
check_print_exc(xs) ==
    /\ tracebacks' = IF xs \notin exc_uniq THEN write_traceback(xs)
                     ELSE tracebacks
    /\ exc_uniq' = exc_uniq \cup {xs}

\* a plugin function is called for a test
called ==
    /\ propagated = {}
    /\ ncalls < MaxCalls
    /\ ncalls' = ncalls + 1
    /\ UNCHANGED <<dvars, xvars, bvars, lvars, qvars, launch, mvars>>

\* validateTest, testTimeout and testRuntime: the exception is caught and
\* handed to _check_print_exc
validateTest ==
    /\ called
    /\ \E out \in Outcomes :
          IF out = "returns"
          THEN UNCHANGED <<exc_uniq, tracebacks, raised>>
          ELSE check_print_exc(out) /\ raised' = raised \cup {out}
    /\ UNCHANGED propagated

\* testPreload: the exception is caught and the traceback is written
testPreload ==
    /\ called
    /\ \E out \in Outcomes :
          IF out = "returns"
          THEN UNCHANGED <<tracebacks, raised>>
          ELSE /\ tracebacks' = write_traceback(out)
               /\ raised' = raised \cup {out}
    /\ UNCHANGED <<exc_uniq, propagated>>

\* Batcher._start_job and _check_get_stopped_jobs: batchitf.submitJob and
\* batchitf.queryJobs are called outside any try block
batchitfCall ==
    /\ called
    /\ \E site \in {"_start_job", "_check_get_stopped_jobs"},
          out \in Outcomes :
          propagated' = IF out = "returns" THEN propagated
                        ELSE propagated \cup {site}
    /\ UNCHANGED <<exc_uniq, tracebacks, raised>>

SpecPlugin == Init /\ [][validateTest \/ testPreload \/ batchitfCall]_vars

\* C24: no exception of the user plugin or of the batch interface leaves
\* its call site, and the traceback of an exception string that was raised
\* has been written exactly once, however often it was raised.
C24_CaughtAndLoggedOnce ==
    /\ propagated = {}
    /\ \A xs \in ExcStrings :
          tracebacks[xs] = IF xs \in raised THEN 1 ELSE 0

(***************************************************************************)
(* The diamond of dependencies: B and C depend on A, D on B and C.         *)
(***************************************************************************)
\* the tests A, B, C, D
DiamondTests == {1, 2, 3, 4}

\* the TestList holds the four tests
DiamondInit ==
    /\ ExecInit /\ BatchInit /\ ListInit /\ QueueInit /\ AuxInit
    /\ DependInit
    /\ np = [t \in DiamondTests |-> 1]
    /\ skip = {}
    /\ staged = {}
    /\ deps = [t \in DiamondTests |-> <<>>]
    /\ state = [t \in DiamondTests |-> "notrun"]
    /\ result = [t \in DiamondTests |-> ""]
    /\ xtlist = <<>>
    /\ started = {}
    /\ stopped = {}
    /\ nfree = NumProcs
    /\ pc = "create"
    /\ lastpop = [t |-> NoTest, pass |-> 0]
    /\ remaining = <<>>
    /\ results_file = [t \in DiamondTests |-> <<>>]
    /\ finish = 0

\* createTestExecs on the diamond, with the default result predicate; the
\* two dependencies of D are connected in either order
createDiamond ==
    /\ pc = "create"
    /\ \E first \in {2, 3} :
          deps' = [t \in DiamondTests |->
                     CASE t = 1 -> <<>>
                       [] t \in {2, 3} -> <<[to |-> 1, expr |-> <<"None">>]>>
                       [] t = 4 -> <<[to |-> first, expr |-> <<"None">>],
                                     [to |-> 5 - first, expr |-> <<"None">>]>>]
    /\ UNCHANGED <<np, skip, staged>>
    /\ createTestExecList
    /\ pc' = "pop"
    /\ UNCHANGED <<state, result, started, stopped, nfree, lastpop, remaining,
                   rvars, xvars, bvars, ovars>>

\* the exit of vvtest after a run that came to its end
exitDirect == pc = "done" /\ exitWithWarning

SpecDiamond ==
    DiamondInit /\ [][createDiamond \/ StartNext \/ LoopExit \/ Sleep
                         \/ PollRunning \/ exitDirect]_vars

\* C25 as stated: when A failed, B, C and D are not run and each is
\* reported with A as the dependency that blocks it, and the exit code has
\* the fail bit and the notrun bit.
C25_AllBlockedByA ==
    (pc = "done" /\ result[1] = "fail") =>
        /\ \A t \in {2, 3, 4} :
              /\ isNotrun(t) /\ t \in Range(remaining)
              /\ getBlockingDependency(t) = 1
        /\ ival # None => (ival \div 4) % 2 = 1 /\ (ival \div 32) % 2 = 1

\* C25, amended: when A failed, B, C and D are not run; B and C are
\* reported with A as the dependency that blocks them and D with the first
\* of its dependencies, B or C, which is itself not run; the exit code has
\* the fail bit and the notrun bit.
C25_BlockedByFirstDependency ==
    (pc = "done" /\ result[1] = "fail") =>
        /\ \A t \in {2, 3, 4} : isNotrun(t) /\ t \in Range(remaining)
        /\ getBlockingDependency(2) = 1
        /\ getBlockingDependency(3) = 1
        /\ getBlockingDependency(4) = deps[4][1].to
        /\ getBlockingDependency(4) \in {2, 3}
        /\ ival # None => (ival \div 4) % 2 = 1 /\ (ival \div 32) % 2 = 1

C25_Witness ==
    /\ pc = "done" /\ result[1] = "fail"
    /\ Range(remaining) = {2, 3, 4}
    /\ getBlockingDependency(4) = 3
    /\ ival = 4 + 32

(***************************************************************************)
(* Dependencies that form a cycle.  No function of the run list looks for  *)
(* a cycle; willNeverRun of TestDependency and of TestCase call each other *)
(* with no record of the tests already visited, so that on a cycle of      *)
(* notrun tests the recursion has no end and Python raises RecursionError  *)
(* at its recursion limit.  The evaluation is made here with the set of    *)
(* the tests whose willNeverRun is on the call stack; its results are the  *)
(* words "True" and "False" and RecursionError.                            *)
(***************************************************************************)
RecursionError == "RecursionError"
\* what stands for the exception where a test index is expected
Raised == NoTest - 1

NotSatisfied(tdep) ==
    IF satisfiesResult(tdep.expr, getResultStatus(tdep.to))
    THEN "False" ELSE "True"

\* "if r: return v" and "if not r: return v", the exception passing through
IfTrue(r, v) == IF r = "True" THEN v ELSE r
IfFalse(r, v) == IF r = "False" THEN v ELSE r

RECURSIVE depWillNeverRunRec(_, _), tcWillNeverRunRec(_, _, _)

\* TestDependency.willNeverRun
depWillNeverRunRec(tdep, stack) ==
    LET u == tdep.to IN
    IF isDone(u) \/ skipTest(u)
    THEN NotSatisfied(tdep)
    ELSE IF isNotrun(u)
    THEN IF u \in stack THEN RecursionError
         ELSE IfTrue(tcWillNeverRunRec(u, stack \cup {u}, 1),
                     NotSatisfied(tdep))
    ELSE "False"

\* TestCase.willNeverRun: the loop over self.deps from index i on, which
\* returns at the first dependency that will never run
tcWillNeverRunRec(t, stack, i) ==
    IF i > Len(deps[t]) THEN "False"
    ELSE IfFalse(depWillNeverRunRec(deps[t][i], stack),
                 tcWillNeverRunRec(t, stack, i + 1))

\* TestDependency.isBlocking
isBlockingRec(tdep) ==
    LET u == tdep.to IN
    IF isDone(u) \/ skipTest(u)
    THEN NotSatisfied(tdep)
    ELSE IF isNotDone(u)
    THEN "True"
    ELSE IfFalse(IfTrue(tcWillNeverRunRec(u, {u}, 1), NotSatisfied(tdep)),
                 "True")

\* one turn of each search loop: the exception passes through, a hit is
\* returned, and otherwise the result is that of the turns that follow
FirstOf(r, u, rest) ==
    IF r = RecursionError THEN Raised ELSE IF r = "True" THEN u ELSE rest
ScanOf(b, i, rest) ==
    IF b = Raised THEN Raised ELSE IF b = NoTest THEN i ELSE rest
BucketOf(i, n, rest) ==
    IF i = Raised THEN <<Raised>> ELSE IF i > 0 THEN <<n, i>> ELSE rest
PassOf(found, pass, rest) ==
    IF found = <<Raised>> THEN found
    ELSE IF found # <<>> THEN found \o <<pass>>
    ELSE rest

RECURSIVE FirstBlockingRec(_, _)
\* TestCase.getBlockingDependency: the first dependency test that blocks,
\* None, or Raised
FirstBlockingRec(t, i) ==
    IF i > Len(deps[t]) THEN NoTest
    ELSE FirstOf(isBlockingRec(deps[t][i]), deps[t][i].to,
                 FirstBlockingRec(t, i + 1))

RECURSIVE ScanBucketRec(_, _)
\* inner loop of _pop_next_test
ScanBucketRec(L, i) ==
    IF i > Len(L) THEN 0
    ELSE ScanOf(FirstBlockingRec(L[i], 1), i, ScanBucketRec(L, i + 1))

RECURSIVE PopNextTestFromRec(_, _, _)
\* outer loop of _pop_next_test
PopNextTestFromRec(npL, k, withPlatform) ==
    IF k > Len(npL) THEN <<>>
    ELSE BucketOf(IF (~withPlatform) \/ queryProcs(npL[k])
                  THEN ScanBucketRec(xtlist[npL[k]], 1) ELSE 0,
                  npL[k], PopNextTestFromRec(npL, k + 1, withPlatform))

\* popNext: <<np, i, pass>>, <<>> for None, or <<Raised>>
popNextRec ==
    PassOf(PopNextTestFromRec(SortReverse(DOMAIN xtlist), 1, TRUE), 1,
           IF Cardinality(started) = 0
           THEN PassOf(PopNextTestFromRec(SortReverse(DOMAIN xtlist), 1,
                                          FALSE), 2, <<>>)
           ELSE <<>>)

\* any graph of dependencies over the tests, a test on itself included
AnyGraphs == [Tests -> SUBSET Tests]

\* createTestExecs on a TestList whose dependency patterns match any tests:
\* check_connect_dependencies connects what the patterns match
createCyclic ==
    /\ pc = "create"
    /\ \E d \in AnyGraphs :
          deps' = [t \in Tests |-> EdgeSeq(d[t], <<"None">>)]
    /\ UNCHANGED <<np, skip, staged>>
    /\ createTestExecList
    /\ pc' = "pop"
    /\ UNCHANGED <<state, result, started, stopped, nfree, lastpop, remaining,
                   rvars, xvars, bvars, ovars>>

\* popNext raises RecursionError: the exception leaves run_test_list
\* through the finally clause, with the tests that run left running
PopRaises ==
    /\ pc = "pop"
    /\ popNextRec = <<Raised>>
    /\ finish' = writeFinished
    /\ pc' = "aborted"
    /\ UNCHANGED <<cvars, state, result, xtlist, started, stopped, nfree,
                   lastpop, remaining, results_file, xvars, bvars, ovars>>

StartCyclic ==
    popNextRec # <<Raised>> /\ StartWith(popNextRec) /\ UNCHANGED ovars

LoopExitCyclic == LoopExitWith(popNextRec)

SleepCyclic == SleepWith(popNextRec)

SpecCycle ==
    Init /\ [][createCyclic \/ StartCyclic \/ PopRaises \/ LoopExitCyclic
                  \/ SleepCyclic \/ PollRunning]_vars

\* the tests that the tests of S depend on
Succ(S) == UNION {{deps[t][i].to : i \in 1..Len(deps[t])} : t \in S}

RECURSIVE Closure(_)
Closure(S) ==
    LET N == S \cup Succ(S) IN IF N = S THEN S ELSE Closure(N)

\* some test depends on itself along the dependencies
HasCycle == \E t \in DOMAIN deps : t \in Closure(Succ({t}))

\* C26: when the dependencies of the active tests form a cycle, the run is
\* aborted with no test executed (every test is still notrun and the loop
\* is not left at its regular end), and the evaluation of the blocking
\* dependencies by popNext comes to an end (it does not raise
\* RecursionError).
C26_CycleIsFatalBeforeExecution ==
    HasCycle =>
        /\ \A t \in Tests : isNotrun(t)
        /\ pc # "done"
        /\ popNextRec # <<Raised>>

(***************************************************************************)
(* The resolution of a dependency pattern against the execute directories. *)
(* A path or pattern is the sequence of its characters.                    *)
(***************************************************************************)

\* the execute directories that the TestList may hold
KnownDirs ==
    {<<"a">>, <<"d", "/", "a">>, <<"d", "/", "s", "/", "a">>,
     <<"e", "/", "a">>, <<"d", "/", "x", "a">>, <<"d", "/", "b">>}

\* the execute directories of the dependent test
FromDirs == {<<"t">>, <<"d", "/", "t">>, <<"d", "/", "s", "/", "t">>}

\* the dependency patterns
Patterns ==
    {<<"a">>, <<"*">>, <<"?">>, <<"s", "/", "a">>, <<"a", "*">>,
     <<".", ".", "/", "e", "/", "a">>, <<".", "/", "a">>, <<"b">>}

RECURSIVE fnmatch(_, _)
\* fnmatch.fnmatch on POSIX for patterns with no bracket expression: "*"
\* matches any characters, "/" included, and "?" matches one character
fnmatch(name, pat) ==
    IF pat = <<>> THEN name = <<>>
    ELSE IF Head(pat) = "*"
    THEN fnmatch(name, Tail(pat))
            \/ (name # <<>> /\ fnmatch(Tail(name), pat))
    ELSE /\ name # <<>>
         /\ Head(pat) = "?" \/ Head(pat) = Head(name)
         /\ fnmatch(Tail(name), Tail(pat))

\* the index of the last "/" of p, or 0
LastSlash(p) ==
    IF \E i \in 1..Len(p) : p[i] = "/"
    THEN Max({i \in 1..Len(p) : p[i] = "/"}) ELSE 0

RECURSIVE rstripSlash(_)
rstripSlash(p) ==
    IF p # <<>> /\ p[Len(p)] = "/"
    THEN rstripSlash(SubSeq(p, 1, Len(p) - 1)) ELSE p

\* os.path.dirname (posixpath)
dirname(p) ==
    LET head == SubSeq(p, 1, LastSlash(p))
    IN IF head # <<>> /\ \E i \in 1..Len(head) : head[i] # "/"
       THEN rstripSlash(head) ELSE head

RECURSIVE split(_, _)
\* p.split('/'): the components of p, cur being the component read so far
split(p, cur) ==
    IF p = <<>> THEN <<cur>>
    ELSE IF Head(p) = "/" THEN <<cur>> \o split(Tail(p), <<>>)
    ELSE split(Tail(p), Append(cur, Head(p)))

DotDot == <<".", ".">>

RECURSIVE new_comps(_, _, _, _)
\* the loop of normpath over the components from index i on
new_comps(comps, i, initial_slashes, acc) ==
    IF i > Len(comps) THEN acc
    ELSE LET comp == comps[i] IN
         IF comp = <<>> \/ comp = <<".">>
         THEN new_comps(comps, i + 1, initial_slashes, acc)
         ELSE IF comp # DotDot
                 \/ (initial_slashes = 0 /\ acc = <<>>)
                 \/ (acc # <<>> /\ acc[Len(acc)] = DotDot)
         THEN new_comps(comps, i + 1, initial_slashes, Append(acc, comp))
         ELSE IF acc # <<>>
         THEN new_comps(comps, i + 1, initial_slashes,
                        SubSeq(acc, 1, Len(acc) - 1))
         ELSE new_comps(comps, i + 1, initial_slashes, acc)

RECURSIVE join(_, _)
\* '/'.join(comps[i:])
join(comps, i) ==
    IF i > Len(comps) THEN <<>>
    ELSE IF i = Len(comps) THEN comps[i]
    ELSE comps[i] \o <<"/">> \o join(comps, i + 1)

\* os.path.normpath (posixpath)
normpath(path) ==
    IF path = <<>> THEN <<".">>
    ELSE LET initial_slashes ==
                 IF Head(path) # "/" THEN 0
                 ELSE IF Len(path) >= 2 /\ path[2] = "/"
                         /\ ~(Len(path) >= 3 /\ path[3] = "/")
                 THEN 2 ELSE 1
             p == [k \in 1..initial_slashes |-> "/"]
                    \o join(new_comps(split(path, <<>>), 1, initial_slashes,
                                      <<>>), 1)
         IN IF p = <<>> THEN <<".">> ELSE p

\* the directory of the dependent test as the prefix of a pattern
tbase(xdir) ==
    IF dirname(xdir) = <<".">> THEN <<>>
    ELSE IF dirname(xdir) # <<>> THEN dirname(xdir) \o <<"/">>
    ELSE <<>>

\* the four forms of the pattern, in the order of the lists L1 to L4
PatternForm(k, xdir, pattern) ==
    CASE k = 1 -> normpath(tbase(xdir) \o pattern)
      [] k = 2 -> tbase(xdir) \o <<"*", "/">> \o pattern
      [] k = 3 -> pattern
      [] k = 4 -> <<"*">> \o pattern

RECURSIVE MatchList(_, _, _, _)
\* the list Lk after the loop over the keys of xdir2tcase that are left
MatchList(k, xdir, pattern, keys) ==
    IF keys = {} THEN <<>>
    ELSE LET x == CHOOSE y \in keys : TRUE
             rest == MatchList(k, xdir, pattern, keys \ {x})
         IN IF fnmatch(x, PatternForm(k, xdir, pattern))
            THEN <<x>> \o rest ELSE rest

RECURSIVE FirstNonEmpty(_, _, _, _)
\* "for L in [ L1, L2, L3, L4 ]" from list k on
FirstNonEmpty(k, xdir, pattern, known) ==
    IF k > 4 THEN {}
    ELSE IF Len(MatchList(k, xdir, pattern, known)) > 0
    THEN Range(MatchList(k, xdir, pattern, known))
    ELSE FirstNonEmpty(k + 1, xdir, pattern, known)

\* mutant: the matches of the four forms together
find_tests_by_any_form(xdir, pattern, known) ==
    UNION {Range(MatchList(k, xdir, pattern, known)) : k \in 1..4}

find_tests_by_execute_directory_match(xdir, pattern, known) ==
    FirstNonEmpty(1, xdir, pattern, known)

\* a dependency pattern of a test, and the execute directories known
MatchInit ==
    /\ DirectInit /\ ExecInit /\ BatchInit /\ ListInit /\ QueueInit
    /\ AuxInit
    /\ dmatch \in [xdir : FromDirs, pattern : Patterns,
                   known : SUBSET KnownDirs, found : {{}}, n : {0}]
    /\ postclean = FALSE
    /\ cleaned = {}
    /\ runtime = <<>>
    /\ pgroup = [analyze |-> NoTest, tests |-> {}]
    /\ has_dependent = {}
    /\ CallInit

\* check_connect_dependencies resolves the pattern
resolvePattern ==
    /\ dmatch.n = 0
    /\ dmatch' = [dmatch EXCEPT
                    !.found = find_tests_by_execute_directory_match(
                                  dmatch.xdir, dmatch.pattern, dmatch.known),
                    !.n = 1]
    /\ UNCHANGED <<dvars, xvars, bvars, lvars, qvars, avars, postclean,
                   cleaned, runtime, pgroup, has_dependent, nvars>>

SpecMatch == MatchInit /\ [][resolvePattern]_vars

\* the known execute directories that form k of the last pattern matches
Matches(k) ==
    {x \in dmatch.known :
        fnmatch(x, PatternForm(k, dmatch.xdir, dmatch.pattern))}

connect_first_sibling(a, grp) ==
    IF grp \ {a} = {} THEN <<>>
    ELSE <<[to |-> CHOOSE x \in grp \ {a} : \A y \in grp \ {a} : x <= y,
            expr |-> <<"None">>]>>

\* connect_analyze_dependencies: the edges of the analyze test a to the
\* tests of its group that are not analyze tests, with no result expression
connect_analyze_dependencies(a, grp) ==
    EdgeSeq({t \in grp : t # a}, <<"None">>)

\* createTestExecs on a TestList with one parameter group and its analyze
\* test; a test of the group may be skipped, the analyze test is active
createAnalyze ==
    /\ pc = "create"
    /\ \E a \in Tests, grp \in SUBSET Tests, p \in [Tests -> 1..MaxNp],
          sk \in SkipSets :
          /\ a \in grp /\ a \notin sk
          /\ pgroup' = [analyze |-> a, tests |-> grp]
          /\ np' = p
          /\ skip' = sk
          /\ staged' = {}
          /\ deps' = [t \in Tests |->
                        IF t = a THEN connect_analyze_dependencies(a, grp)
                        ELSE <<>>]
    /\ createTestExecList
    /\ pc' = "pop"
    /\ UNCHANGED <<state, result, started, stopped, nfree, lastpop, remaining,
                   rvars, xvars, bvars, lvars, qvars, avars, dmatch,
                   postclean, cleaned, runtime, has_dependent, nvars>>

SpecAnalyze ==
    Init /\ [][createAnalyze \/ StartNext \/ LoopExit \/ Sleep
                  \/ PollRunning]_vars

\* the tests of the group that are not the analyze test
Siblings == pgroup.tests \ {pgroup.analyze}

\* C28: the analyze test has an edge to every test of its parameter group
\* that is not an analyze test, and in the step that starts the analyze
\* test every one of them is done with the result pass or diff.
C28_AnalyzeAfterSiblings ==
    [][/\ pc # "create" =>
            {deps[pgroup.analyze][i].to :
                 i \in 1..Len(deps[pgroup.analyze])} = Siblings
       /\ (pgroup.analyze \in started' /\ pgroup.analyze \notin started) =>
            \A t \in Siblings : isDone(t) /\ result[t] \in {"pass", "diff"}
      ]_vars

\* the analyze test runs after two tests of its group, one that passed and
\* one that diffed
C28_Witness ==
    /\ pgroup.analyze \in started
    /\ Cardinality(Siblings) = 2
    /\ \E t \in Siblings : result[t] = "pass"
    /\ \E t \in Siblings : result[t] = "diff"

(***************************************************************************)
(* The post-clean of the execute directory of a test that finished.        *)
(***************************************************************************)
\* TestCase.hasDependent
hasDependent(t) == t \in has_dependent

\* TestSpec.isLastStage: a test that is not staged, or the last stage
isLastStage(t) == t \notin staged \/ t = Max(staged)

\* mutant: the dependents of the test are not looked at
check_run_postclean_any(t, res) ==
    postclean /\ res = "pass" /\ isLastStage(t)

\* ExecutionHandler.check_run_postclean for a test marked with result res:
\* whether postclean() is run
check_run_postclean(t, res) ==
    postclean /\ res = "pass" /\ ~hasDependent(t) /\ isLastStage(t)

\* createTestExecs with the postclean option on or off: connect_dependency
\* marks the test depended on, if it has a TestExec
createClean ==
    /\ pc = "create"
    /\ DepConfig \/ PoolConfig
    /\ createTestExecList
    /\ postclean' \in BOOLEAN
    /\ has_dependent' =
           UNION {{deps'[u][i].to : i \in 1..Len(deps'[u])} :
                     u \in DOMAIN deps'} \ skip'
    /\ pc' = "pop"
    /\ UNCHANGED <<state, result, started, stopped, nfree, lastpop, remaining,
                   rvars, xvars, bvars, lvars, qvars, avars, dmatch, cleaned,
                   runtime, pgroup, nvars>>

\* the sweep over the running tests, with finishExecution running the
\* post-clean of each test that finished
PollClean ==
    /\ PollStep
    /\ cleaned' = cleaned \cup
           {t \in started \ started' : check_run_postclean(t, result'[t])}
    /\ UNCHANGED <<lvars, qvars, avars, dmatch, postclean, runtime, pgroup,
                   has_dependent, nvars>>

SpecClean ==
    Init /\ [][createClean \/ StartNext \/ LoopExit \/ Sleep
                  \/ PollClean]_vars

\* the tests that have t among their dependencies
Dependents(t) ==
    {u \in DOMAIN deps : \E i \in 1..Len(deps[u]) : deps[u][i].to = t}

\* C29: the execute directory of a test is post-cleaned only if the
\* postclean option is set, the test passed, no other test has it as a
\* dependency and it is not staged or is the last stage; so the files of a
\* test that has a dependent are never removed.
C29_PostcleanOnly ==
    \A t \in cleaned :
        /\ postclean
        /\ isDone(t) /\ result[t] = "pass"
        /\ Dependents(t) = {}
        /\ t \in staged => \A s \in staged : s <= t

\* a test was post-cleaned while a test that passed and has a dependent,
\* and finished as well, was not
C29_Witness ==
    /\ cleaned # {}
    /\ \E t \in DOMAIN deps \ cleaned :
          isDone(t) /\ result[t] = "pass" /\ Dependents(t) # {}

(***************************************************************************)
(* The order in which popNext looks at the tests.                          *)
(***************************************************************************)
\* the runtimes of earlier runs: None when there is none
Runtimes == {None, 0, 5}

\* the TestList with the runtimes that the earlier runs left
OrderInit ==
    /\ DirectInit /\ ExecInit /\ BatchInit /\ ListInit /\ QueueInit
    /\ AuxInit
    /\ dmatch = [xdir |-> <<>>, pattern |-> <<>>, known |-> {}, found |-> {},
                 n |-> 0]
    /\ postclean = FALSE
    /\ cleaned = {}
    /\ runtime \in [Tests -> Runtimes]
    /\ pgroup = [analyze |-> NoTest, tests |-> {}]
    /\ has_dependent = {}
    /\ CallInit

SpecOrder == OrderInit /\ [][Next]_vars

\* test u comes before test t in the order of the claim: a bucket of more
\* cores, or the same bucket and a longer runtime
EarlierInOrder(u, t) ==
    \/ np[u] > np[t]
    \/ np[u] = np[t] /\ getRuntime(u) > getRuntime(t)

\* not blocked, and the bucket passes the resource query
Eligible(u) == ~isBlocked(u) /\ queryProcs(np[u])

\* C30: in a step where popNext returns test t, no test of the run list
\* that comes before t in the order (np descending, then runtime
\* descending with an unknown runtime counted as 0) is not blocked with its
\* bucket passing the resource query; and if any test of the run list is
\* not blocked with its bucket passing the query, t is such a test.
C30_FirstEligibleInOrder ==
    [][\A t \in started' \ started :
          /\ \A u \in Pending : EarlierInOrder(u, t) => ~Eligible(u)
          /\ (\E u \in Pending : Eligible(u)) => Eligible(t)
      ]_vars

\* popNext returned a test with a known runtime while a test of the same
\* bucket with a later execute directory name and a shorter or unknown
\* runtime could have run as well
C30_Witness ==
    /\ pc = "poll"
    /\ lastpop.t # NoTest
    /\ \E u \in Pending :
          /\ np[u] = np[lastpop.t]
          /\ u > lastpop.t
          /\ runtime[u] = None
          /\ getRuntime(lastpop.t) = 5
          /\ ~isBlocked(u)

(***************************************************************************)
(* The -T argument of the job scripts.                                     *)
(***************************************************************************)
\* C31 as stated: every job script has a -T argument, 90% of the queue time
\* when the queue time is below 600 and the queue time less 120 otherwise,
\* which is below the queue time.
C31_EveryScriptHasT ==
    pc = "grouped" =>
        \A b \in DOMAIN jobs :
            /\ jobT[b] # None
            /\ jobT[b] = IF qtime[b] < 600 THEN 9 * qtime[b]
                         ELSE 10 * (qtime[b] - 120)
            /\ jobT[b] < 10 * qtime[b]

\* C31, amended: the script of a job that holds exactly one test has a -T
\* argument, 90% of the queue time when the queue time is below 600 and the
\* queue time less 120 otherwise, which is positive and below the queue
\* time; the script of a job with more tests has no -T argument.
C31_SingleTestScriptHasT ==
    pc = "grouped" =>
        \A b \in DOMAIN jobs :
            IF Cardinality(Range(jobs[b])) = 1
            THEN /\ jobT[b] # None
                 /\ jobT[b] = IF qtime[b] < 600 THEN 9 * qtime[b]
                              ELSE 10 * (qtime[b] - 120)
                 /\ 0 < jobT[b] /\ jobT[b] < 10 * qtime[b]
            ELSE jobT[b] = None

\* a job of one test with a queue time below 600, one with a queue time
\* above, and a job of two tests
C31_Witness ==
    /\ pc = "grouped"
    /\ \E b1, b2 \in DOMAIN jobs :
          /\ Len(jobs[b1]) = 1 /\ qtime[b1] < 600 /\ jobT[b1] = 9 * qtime[b1]
          /\ Len(jobs[b2]) = 2 /\ jobT[b2] = None

(***************************************************************************)
(* os_fork_with_retry.  A pause is a number of half seconds.               *)
(***************************************************************************)
\* the numtries that prepare_then_execute asks for
fork_numtries == 10

\* the state of the model outside the call
OtherInit ==
    /\ DirectInit /\ ExecInit /\ BatchInit /\ ListInit /\ QueueInit
    /\ AuxInit
    /\ dmatch = [xdir |-> <<>>, pattern |-> <<>>, known |-> {}, found |-> {},
                 n |-> 0]
    /\ postclean = FALSE
    /\ cleaned = {}
    /\ runtime = <<>>
    /\ pgroup = [analyze |-> NoTest, tests |-> {}]
    /\ has_dependent = {}
    /\ HandleInit

\* os_fork_with_retry is entered: numtries > 0, pause = 0.5
ForkInit ==
    /\ OtherInit
    /\ fork \in [numtries : 1..fork_numtries, tries : {0}, fails : {0},
                 pause : {1}, slept : {<<>>}, status : {"trying"}]
    /\ bump = [t |-> 0, r |-> 0, rnext |-> 0, n |-> 0]

\* mutant: the pause grows by half a second
pause_plus(p) == p + 1

\* pause *= 2
pause_doubled(p) == p * 2

\* os.fork() returns: the loop is left and the pid is returned
forkReturns ==
    /\ fork.status = "trying"
    /\ fork' = [fork EXCEPT !.tries = @ + 1, !.status = "pid"]
    /\ UNCHANGED <<dvars, xvars, bvars, lvars, qvars, avars, dmatch,
                   postclean, cleaned, runtime, pgroup, has_dependent, bump,
                   hvars>>

\* os.fork() raises OSError in turn i of the loop (i = fork.tries): raise
\* in the last turn, sleep and double the pause otherwise
forkRaisesOSError ==
    /\ fork.status = "trying"
    /\ IF fork.tries + 1 = fork.numtries
       THEN fork' = [fork EXCEPT !.tries = @ + 1, !.fails = @ + 1,
                                 !.status = "raised"]
       ELSE fork' = [fork EXCEPT !.tries = @ + 1, !.fails = @ + 1,
                                 !.slept = Append(@, fork.pause),
                                 !.pause = pause_doubled(@)]
    /\ UNCHANGED <<dvars, xvars, bvars, lvars, qvars, avars, dmatch,
                   postclean, cleaned, runtime, pgroup, has_dependent, bump,
                   hvars>>

SpecFork == ForkInit /\ [][forkReturns \/ forkRaisesOSError]_vars

RECURSIVE Pow2(_)
Pow2(k) == IF k = 0 THEN 1 ELSE 2 * Pow2(k - 1)

\* C32: os.fork is tried at most numtries times (ten at the launch of a
\* test); after each failure but the last the call sleeps, the first time
\* half a second and each time twice as long as the time before; the call
\* returns the pid at the first fork that succeeds, after which nothing more
\* is tried, and raises only when numtries forks in a row have failed.
C32_ForkRetry ==
    [][/\ fork'.tries <= fork'.numtries
       /\ fork'.status = "pid" =>
             /\ fork'.tries = fork'.fails + 1
             /\ Len(fork'.slept) = fork'.fails
       /\ fork'.status = "raised" =>
             /\ fork'.fails = fork'.numtries
             /\ fork'.tries = fork'.numtries
             /\ Len(fork'.slept) = fork'.numtries - 1
       /\ fork'.status = "trying" =>
             /\ fork'.tries = fork'.fails
             /\ fork'.fails < fork'.numtries
             /\ Len(fork'.slept) = fork'.fails
       /\ \A k \in 1..Len(fork'.slept) : fork'.slept[k] = Pow2(k - 1)
       /\ fork.status # "trying" => fork' = fork
      ]_vars

\* the launch of a test: the tenth fork failed after nine sleeps, the last
\* of 128 s, and the error is raised
C32_Witness ==
    /\ fork.numtries = fork_numtries
    /\ fork.status = "raised"
    /\ fork.fails = 10
    /\ Len(fork.slept) = 9
    /\ fork.slept[9] = 256

(***************************************************************************)
(* The overhead of the queue time bump, for every queue time up to a       *)
(* bound that lies beyond the last step of the schedule.                   *)
(***************************************************************************)
MaxQueueTime == 2000

\* a queue time is handed to apply_queue_timeout_bump_factor
BumpInit ==
    /\ OtherInit
    /\ fork = [numtries |-> 1, tries |-> 0, fails |-> 0, pause |-> 1,
               slept |-> <<>>, status |-> "idle"]
    /\ bump \in [t : 0..MaxQueueTime, r : {0}, rnext : {0}, n : {0}]

\* the bump of the queue time and of the next greater one
applyBump ==
    /\ bump.n = 0
    /\ bump' = [bump EXCEPT
                  !.r = apply_queue_timeout_bump_factor(bump.t),
                  !.rnext = apply_queue_timeout_bump_factor(bump.t + 1),
                  !.n = 1]
    /\ UNCHANGED <<dvars, xvars, bvars, lvars, qvars, avars, dmatch,
                   postclean, cleaned, runtime, pgroup, has_dependent, fork,
                   hvars>>

SpecBump == BumpInit /\ [][applyBump]_vars

\* C33: the overhead that the bump adds to a queue time t >= 0 is at least
\* one second (the result is greater than t), at most 900 s, and not more
\* than the overhead added to t + 1.
C33_OverheadMonotoneBounded ==
    bump.n = 1 =>
        /\ bump.r > bump.t
        /\ bump.r - bump.t <= 900
        /\ bump.r - bump.t <= bump.rnext - (bump.t + 1)

\* the last queue time below the half hour, where the overhead has reached
\* 900 s
C33_Witness ==
    /\ bump.n = 1
    /\ bump.t = 1799
    /\ bump.r = 1799 + 900

(***************************************************************************)
(* The finish check of a stopped job.  The run loop is followed for as     *)
(* long as a job is stopped, so the clock runs past MaxSleeps sleeps while *)
(* one is; the loop takes its steps, the batch system and the job scripts  *)
(* owe nothing.                                                            *)
(***************************************************************************)
\* the tests of the run: tests of one core without dependencies, the
\* timeouts alike; one job is written, of one test or of two, or (with the
\* default sleep length and the job limit 1) two jobs of one test, the
\* second of which is submitted when the first has left the submitted jobs
FinishConfig ==
    \E mj \in 1..MaxJobs, qs \in SleepLengths, sk \in {{3}, {2, 3}},
       tm \in 1..batch_length :
        /\ tm > 1 => (sk = {3} /\ mj = 1 /\ qs = 15)
        /\ np' = [t \in Tests |-> 1]
        /\ skip' = sk
        /\ staged' = {}
        /\ deps' = [t \in Tests |-> <<>>]
        /\ testtimeout' = [t \in Tests |-> tm]
        /\ maxjobs' = mj
        /\ qsleep' = qs

createFinishTestExecs ==
    /\ pc = "create"
    /\ FinishConfig
    /\ createTestExecList
    /\ pc' = "write"
    /\ UNCHANGED <<state, result, started, stopped, nfree, lastpop, remaining,
                   xvars, jobs, todo, submitted, bstopped, bdone, bjob, queue,
                   outfile, resfile, journal, cancels, rvars, ovars>>

\* run_batch: checkstart returns None with jobs in flight, the loop sleeps;
\* with no job stopped the clock is held to MaxSleeps sleeps
sleep_in_flight ==
    /\ pc = "checkstart"
    /\ checkstartIds = {}
    /\ numInFlight # 0
    /\ bstopped # {} \/ now + qsleep <= 1 + qsleep * MaxSleeps
    /\ now' = now + qsleep
    /\ pc' = "checkdone"
    /\ UNCHANGED <<tvars, state, result, stopped, bvars, rvars, ovars>>

\* the steps of run_batch
LoopNext ==
    \/ createFinishTestExecs \/ writeQsubScripts
    \/ checkstart \/ sleep_in_flight \/ flush \/ checkdone
    \/ shutdown

FinishNext == LoopNext \/ JobRuns \/ JobEnds \/ JobLeavesQueue

SpecFinish == Init /\ [][FinishNext]_vars /\ WF_vars(LoopNext)

SyntheticResults == {"notrun", "notdone", "fail"}

\* a finish check of the stopped job b is made in this step
FinishChecked(b) ==
    /\ pc = "checkdone" /\ pc' = "checkstart"
    /\ b \in bstopped
    /\ now > bjob[b].tcheck + check_interval

\* C34: a job that is stopped is done in the end; the check time of a
\* stopped job is set anew only at a time below stopTime + check_timeout,
\* and a finish check at or after that time which finds no clean finish
\* marks the job done with notrun, notdone or fail.
C34_StoppedJobBecomesDone ==
    /\ \A b \in 1..NumTests : (b \in bstopped) ~> (b \in bdone)
    /\ [][\A b \in bstopped :
             /\ (b \in bstopped' /\ bjob'[b].tcheck # bjob[b].tcheck)
                   => now < bjob[b].tstop + check_timeout
             /\ (/\ FinishChecked(b)
                 /\ ~(outfile[b] = "clean" /\ resfile[b] = "finished")
                 /\ now >= bjob[b].tstop + check_timeout)
                   => /\ b \in bdone'
                      /\ bjob'[b].result \in SyntheticResults]_vars

\* a job is given up at the first check past its stop time + check_timeout,
\* after a check that set the check time anew
C34_Witness ==
    \E b \in bdone :
        /\ bjob[b].result \in SyntheticResults
        /\ bjob[b].tstop # None
        /\ bjob[b].tcheck > bjob[b].tstop
        /\ now >= bjob[b].tstop + check_timeout

(***************************************************************************)
(* The BatchJobHandler by itself: its operations in any order, on any job  *)
(* it has created.                                                         *)
(***************************************************************************)
MaxCreated == 3     \* createJob is called at most this many times

\* mutant: the job is looked up but left in the map that holds it
pop_job_peek(bid) ==
    IF bid \in todo \cup submitted \cup bstopped \cup bdone
    THEN <<todo, submitted, bstopped, bdone>>
    ELSE <<>>

\* _pop_job: the four maps after the pop from the first map that holds the
\* batch id; <<>> for the exception of an id that no map holds
pop_job(bid) ==
    IF bid \in todo THEN <<todo \ {bid}, submitted, bstopped, bdone>>
    ELSE IF bid \in submitted THEN <<todo, submitted \ {bid}, bstopped, bdone>>
    ELSE IF bid \in bstopped THEN <<todo, submitted, bstopped \ {bid}, bdone>>
    ELSE IF bid \in bdone THEN <<todo, submitted, bstopped, bdone \ {bid}>>
    ELSE <<>>

\* what the operations of the handler leave alone
hrest == <<dvars, xvars, maxjobs, qsleep, testtimeout, jobs, queue, outfile,
           resfile, journal, cancels, ovars>>

createJob ==
    /\ Len(bjob) < MaxCreated
    /\ bjob' = Append(bjob, [jobid |-> None, tstart |-> None, seen |-> FALSE,
                             tstop |-> None, tcheck |-> None, result |-> ""])
    /\ todo' = todo \cup {Len(bjob) + 1}
    /\ UNCHANGED <<submitted, bstopped, bdone, hrest>>

markJobStarted ==
    \E bid \in DOMAIN bjob :
        /\ pop_job(bid) # <<>>
        /\ todo' = pop_job(bid)[1]
        /\ submitted' = pop_job(bid)[2] \cup {bid}
        /\ bstopped' = pop_job(bid)[3]
        /\ bdone' = pop_job(bid)[4]
        /\ bjob' = [bjob EXCEPT
               ![bid].jobid = submitJob(bid),
               ![bid].tstart = now,
               ![bid].tcheck = now + Max({1, (check_interval + 5) \div 10})]
        /\ UNCHANGED hrest

markJobStopped ==
    \E bid \in DOMAIN bjob :
        /\ pop_job(bid) # <<>>
        /\ todo' = pop_job(bid)[1]
        /\ submitted' = pop_job(bid)[2]
        /\ bstopped' = pop_job(bid)[3] \cup {bid}
        /\ bdone' = pop_job(bid)[4]
        /\ bjob' = [bjob EXCEPT ![bid].tstop = now, ![bid].tcheck = now]
        /\ UNCHANGED hrest

\* the maps after markJobDone( bjob, result )
maps_markJobDone(bid) ==
    <<pop_job(bid)[1], pop_job(bid)[2], pop_job(bid)[3],
      pop_job(bid)[4] \cup {bid}>>

markJobDone ==
    \E bid \in DOMAIN bjob, res \in {"clean", "notrun", "notdone", "fail"} :
        /\ pop_job(bid) # <<>>
        /\ todo' = maps_markJobDone(bid)[1]
        /\ submitted' = maps_markJobDone(bid)[2]
        /\ bstopped' = maps_markJobDone(bid)[3]
        /\ bdone' = maps_markJobDone(bid)[4]
        /\ bjob' = [bjob EXCEPT ![bid].result = res]
        /\ UNCHANGED hrest

\* markJobDone( bjob, 'notrun' ) for each job of list( getNotStarted() ):
\* each is popped from todo, the first map, and put into done
markNotStartedJobsAsDone ==
    /\ todo # {}
    /\ todo' = {}
    /\ bdone' = bdone \cup todo
    /\ bjob' = [b \in DOMAIN bjob |->
                   IF b \in todo THEN [bjob[b] EXCEPT !.result = "notrun"]
                   ELSE bjob[b]]
    /\ UNCHANGED <<submitted, bstopped, hrest>>

HandlerNext ==
    \/ createJob \/ markJobStarted \/ markJobStopped \/ markJobDone
    \/ markNotStartedJobsAsDone

SpecHandler == Init /\ [][HandlerNext]_vars

InMaps(b) ==
    Cardinality({k \in 1..4 : b \in <<todo, submitted, bstopped, bdone>>[k]})

\* C35: every job the handler has created is in exactly one of the maps
\* todo, submitted, stopped and done, the maps hold nothing else, and their
\* sizes add up to the number of jobs created.
C35_JobInExactlyOneMap ==
    /\ \A b \in DOMAIN bjob : InMaps(b) = 1
    /\ todo \cup submitted \cup bstopped \cup bdone = DOMAIN bjob
    /\ Cardinality(todo) + Cardinality(submitted) + Cardinality(bstopped)
           + Cardinality(bdone) = Len(bjob)

\* three jobs created, and with jobs marked in an order the run loop does not
\* take: a job that has been done is submitted anew, one is stopped
C35_Witness ==
    /\ Len(bjob) = MaxCreated
    /\ \E b \in submitted : bjob[b].result # ""
    /\ bstopped # {}
    /\ bdone # {}

(***************************************************************************)
(* The end of the run_batch loop, for every dependency graph of the tests. *)
(***************************************************************************)
\* the tests of the run: any dependency graph, every test with a timeout
\* of 1 and one core
FlushConfig ==
    \E d \in DepGraphs, mj \in 1..MaxJobs :
        /\ np' = [t \in Tests |-> 1]
        /\ skip' = {}
        /\ staged' = {}
        /\ deps' = [t \in Tests |-> EdgeSeq(d[t], <<"None">>)]
        /\ testtimeout' = [t \in Tests |-> 1]
        /\ maxjobs' = mj
        /\ qsleep' = 15

createFlushTestExecs ==
    /\ pc = "create"
    /\ FlushConfig
    /\ createTestExecList
    /\ pc' = "write"
    /\ UNCHANGED <<state, result, started, stopped, nfree, lastpop, remaining,
                   xvars, jobs, todo, submitted, bstopped, bdone, bjob, queue,
                   outfile, resfile, journal, cancels, rvars, ovars>>

FlushNext ==
    \/ createFlushTestExecs \/ writeQsubScripts
    \/ checkstart \/ sleep_with_info_check \/ flush \/ checkdone
    \/ shutdown
    \/ JobRuns \/ JobEnds \/ JobLeavesQueue

SpecFlush == Init /\ [][FlushNext]_vars
C37_SignalsOfPoll ==
    /\ [](pid # None =>
            /\ sent["SIGINT"] <= 1
            /\ timeout <= 0 => sent["SIGINT"] = 0 /\ sent["SIGTERM"] = 0)
    /\ [][pid # None =>
            /\ sent'["SIGINT"] # sent["SIGINT"] => timedout' = now
            /\ sent["SIGINT"] = 1 => timedout' = timedout
            /\ sent'["SIGTERM"] # sent["SIGTERM"] =>
                  /\ sent["SIGINT"] = 1
                  /\ now - timedout > interrupt_to_kill_timeout]_vars

\* a forked test has been interrupted once and, at polls more than 30 s
\* later, sent SIGTERM twice
C37_Witness ==
    /\ pid # None
    /\ sent["SIGINT"] = 1
    /\ sent["SIGTERM"] = 2
\* the places of test t in the groups
PlacesOf(t) ==
    {p \in (DOMAIN jobs) \X (1..NumTests) :
        p[2] <= Len(jobs[p[1]]) /\ jobs[p[1]][p[2]] = t}

\* C38: every test of the exec list is in exactly one group, at one place;
\* a test with a dependency or with a timeout below 1 is the only member of
\* its group; the members of a group of several tests have the same np and
\* their timeouts add up to no more than the batch length.
C38_GroupsPartition ==
    pc = "grouped" =>
        /\ \A t \in Tests : Cardinality(PlacesOf(t)) = 1
        /\ \A b \in DOMAIN jobs : Range(jobs[b]) \subseteq Tests
        /\ \A t \in Tests :
              numDependencies(t) > 0 \/ testtimeout[t] < 1 =>
                  \A p \in PlacesOf(t) : Len(jobs[p[1]]) = 1
        /\ \A b \in DOMAIN jobs :
              Len(jobs[b]) > 1 =>
                  /\ \A i, j \in 1..Len(jobs[b]) :
                        np[jobs[b][i]] = np[jobs[b][j]]
                  /\ MemberSum(b) <= batch_length

\* a group of two tests that fills the batch length, a third test of the
\* same np and timeout that had to open a group of its own
C38_Witness ==
    /\ pc = "grouped"
    /\ \E b1, b2 \in DOMAIN jobs :
          /\ Len(jobs[b1]) = 2 /\ MemberSum(b1) = batch_length
          /\ Len(jobs[b2]) = 1
          /\ np[jobs[b2][1]] = np[jobs[b1][1]]
          /\ testtimeout[jobs[b2][1]] = 1
          /\ numDependencies(jobs[b2][1]) = 0

(***************************************************************************)
(* The resources of a direct run.  The platform's pool is modelled as the  *)
(* counter of free cores together with an account of its allocations; an   *)
(* allocation is the pair of its number and the cores it holds.            *)
(***************************************************************************)
\* platform.getResources( np, nd ): the object returned
obtain(n) == <<pool.next, n>>

\* the pool's account after getResources
afterObtain(n) ==
    [next |-> pool.next + 1, held |-> pool.held \cup {obtain(n)},
     nret |-> Append(pool.nret, 0)]

\* mutant: a return that leaves the allocation in the account
release_forgets(acc, obj) ==
    [acc EXCEPT !.nret[obj[1]] = @ + 1]

\* platform.returnResources( obj ): the account acc after the return
release(acc, obj) ==
    [acc EXCEPT !.held = @ \ {obj}, !.nret[obj[1]] = @ + 1]

RECURSIVE releaseAll(_, _)
\* finishExecution for each test of S: returnResources( getResourceObject() )
releaseAll(acc, S) ==
    IF S = {} THEN acc
    ELSE LET t == CHOOSE x \in S : TRUE
         IN releaseAll(release(acc, resource_obj[t]), S \ {t})

\* start_test: the resources are obtained and kept in the TestExec, then the
\* test is launched
StartPool ==
    /\ StartStep
    /\ \E t \in started' \ started :
          /\ resource_obj' = [resource_obj EXCEPT ![t] = obtain(np[t])]
          /\ pool' = afterObtain(np[t])
    /\ UNCHANGED <<lvars, qvars, avars, dmatch, postclean, cleaned, runtime,
                   pgroup, has_dependent, fork, bump>>

\* the tests that poll finds finished go through finishExecution
PollPool ==
    /\ PollStep
    /\ pool' = releaseAll(pool, started \ started')
    /\ UNCHANGED <<lvars, qvars, avars, dmatch, postclean, cleaned, runtime,
                   pgroup, has_dependent, fork, bump, resource_obj>>

SpecPool ==
    Init /\ [][createTestExecs \/ StartPool \/ LoopExit \/ Sleep \/ PollPool]_vars

Active == Tests \ skip

RECURSIVE SumLen(_)
\* the number of entries of the run list over the buckets S
SumLen(S) ==
    IF S = {} THEN 0
    ELSE LET n == CHOOSE x \in S : TRUE
         IN Len(xtlist[n]) + SumLen(S \ {n})

numPending == SumLen(DOMAIN xtlist)

\* the number of the collections among cols that hold test t
HeldIn(t, cols) == Cardinality({k \in DOMAIN cols : t \in cols[k]})

\* C40 as stated: every active test is in exactly one of the pending run
\* list, the started set and the stopped set, and numRunning + numDone + the
\* number pending is the number of active tests.
C40_PendingStartedStopped ==
    pc # "create" =>
        /\ \A t \in Active : HeldIn(t, <<Pending, started, stopped>>) = 1
        /\ numRunning + numDone + numPending = Cardinality(Active)

\* C40: every active test is in exactly one of the pending run list, the
\* started set, the stopped set and the list that popRemaining returned,
\* once in it, and the four sizes add up to the number of active tests;
\* popNext hands out a test of the pending run list and takes it out, and
\* nothing is put into the run list, so no test is handed out twice.
C40_PendingStartedStoppedRemaining ==
    /\ [](pc # "create" =>
            /\ \A t \in Active :
                  HeldIn(t, <<Pending, started, stopped, Range(remaining)>>) = 1
            /\ numPending = Cardinality(Pending)
            /\ Len(remaining) = Cardinality(Range(remaining))
            /\ numRunning + numDone + numPending + Len(remaining)
                   = Cardinality(Active))
    /\ [][pc # "create" =>
            /\ Pending' \subseteq Pending
            /\ \A t \in started' \ started :
                  t \in Pending /\ t \notin Pending']_vars

\* the loop has been left with one test run and two tests, which could not
\* run, returned by popRemaining
C40_Witness ==
    /\ pc = "done"
    /\ Len(remaining) = 2
    /\ Cardinality(stopped) = 1
    /\ started = {}
====
